---- MODULE Spec2Model ----
(***************************************************************************)
(* Stock allocation of the order-validation handler                       *)
(* (SDF_Stock/src/CommandeValidation/__init__.py, function main).          *)
(*                                                                         *)
(* The store is the set of SharePoint lists the handler reads and patches *)
(* through Microsoft Graph: the order (commande), the order lines of all  *)
(* orders (liste_details), the product catalogue (produits), the on-hand  *)
(* inventory (inventaire) and the incoming shipments (arrivages).  One    *)
(* run of main is a sequence of steps, one per gateway call or loop       *)
(* iteration; pc is the position of the run in main.                      *)
(*                                                                         *)
(* The loop of the verification handler                                    *)
(* (SDF_Stock/src/CommandeVerification/__init__.py) is modelled by the     *)
(* Verif actions (SpecVerification), and two invocations of main for two  *)
(* orders interleaved on one store by Commuter (SpecConcurrent).  The     *)
(* other specifications run main on stores chosen for one concern: dates  *)
(* (SpecDates), quantities (SpecQuantites), the secondary site            *)
(* (SpecSecondaire), the committed reservations (SpecCommitted), the      *)
(* history queries (SpecHistorique), and the same request sent again      *)
(* (SpecRerun, SpecReexecution).                                           *)
(***************************************************************************)
EXTENDS Integers, Sequences, FiniteSets, TLC

\* ------------------------------------------------------------------------
\* Bounds of the model
\* ------------------------------------------------------------------------
MaxLines == 2       \* lines of the order under validation
MaxRuns == 2        \* runs of main for the same order (SpecRerun)

\* ------------------------------------------------------------------------
\* Field values as the gateway returns them
\* ------------------------------------------------------------------------
\* float(value) of the quantity fields the model uses; any other value makes
\* float() raise.
NumeralValue ==
  ("0" :> 0) @@ ("1" :> 1) @@ ("2" :> 2) @@ ("3" :> 3) @@ ("-1" :> (0 - 1))

\* datetime.strptime(value[:10], "%Y-%m-%d") of the date fields the model
\* uses, as <<day of March 2025, hour of the day in the full value>>; the
\* parsed datetime is midnight of the day, the hour is cut off by [:10].
\* Any other non-empty value makes strptime raise.
DateValue ==
  ("2025-03-01T00:00:00Z" :> <<1, 0>>) @@
  ("2025-03-10T00:00:00Z" :> <<10, 0>>) @@
  ("2025-03-10T18:00:00Z" :> <<10, 18>>) @@
  ("2025-03-15T00:00:00Z" :> <<15, 0>>)

\* a rejected field counted for one in the place of zero
ParseFloatSansDefaut(value) ==
  IF value \in DOMAIN NumeralValue THEN NumeralValue[value] ELSE 1

\* parse_float
ParseFloat(value) ==
  IF value \in DOMAIN NumeralValue THEN NumeralValue[value] ELSE 0

\* value is a non-empty string that strptime(value[:10], "%Y-%m-%d") accepts
DateParsable(value) == value \in DOMAIN DateValue

\* the datetime strptime(value[:10], ...) returns: the calendar day at 00:00
StrptimeAvecHeure(value) == DateValue[value][1] * 24 + DateValue[value][2]

Strptime(value) == DateValue[value][1] * 24

\* ------------------------------------------------------------------------
\* State
\* ------------------------------------------------------------------------
VARIABLES
  \* the store
  commande,             \* fields of the order
  liste_details,        \* order lines of all orders (list cmddetailslistid)
  produits,             \* product catalogue
  inventaire,           \* on-hand inventory records
  arrivages,            \* incoming-shipment records
  \* the run of main
  pc,                   \* position in main
  runs,                 \* number of runs started
  date_livraison,       \* <<>> is None, <<t>> the parsed delivery date
  details,              \* lines of the order as fetched
  all_details_history,  \* reservation history as fetched
  usage_tracker,        \* key -> quantity taken by earlier lines of the run
  ruptures,             \* shortage records of the run
  idx,                  \* index in details of the next line of the loop
  loc,                  \* locals of the last loop iteration
  outcome,              \* per line, the branch of the loop that ended it
  updates,              \* graph_update_field calls that succeeded in the run
  response,             \* the HttpResponse returned, status_code 0 before
  appels,               \* calls the run issued to the vault and the gateway
  \* the invocations of main
  req,                  \* the request of the invocation that is executing:
                        \* the order it is for, and whether its body, once
                        \* received, carries the identifier
  autre                 \* <<>>, or the invocation that is suspended, or
                        \* the one that answered before the request was
                        \* sent again

store == <<commande, liste_details, produits, inventaire, arrivages>>
local == <<pc, date_livraison, details, all_details_history, usage_tracker,
           ruptures, idx, loc, outcome, updates, response, appels>>
invocations == <<req, autre>>
vars == <<commande, liste_details, produits, inventaire, arrivages,
          pc, runs, date_livraison, details, all_details_history,
          usage_tracker, ruptures, idx, loc, outcome, updates, response,
          appels, req, autre>>

\* commande_id = body.get("commande_id"), when the body carries one
commande_id == req.commande_id
site_stock == commande.Site_Stock
site_stock_bis == commande.Site_Stock_second

\* ------------------------------------------------------------------------
\* Pure helpers of main
\* ------------------------------------------------------------------------
\* sum(...) of a generator
RECURSIVE SommeNombres(_)
SommeNombres(nombres) ==
  IF nombres = <<>> THEN 0 ELSE Head(nombres) + SommeNombres(Tail(nombres))

\* sum(parse_float(x["fields"].get("Quantite")) for x in seq if <condition>),
\* keep the indices of the records of seq that satisfy the condition
Somme(seq, keep) ==
  SommeNombres([k \in 1..Len(seq) |->
                  IF k \in keep THEN ParseFloat(seq[k].Quantite) ELSE 0])

\* next((p["fields"] for p in produits if ... == reference), None)
ProduitTrouve(reference) ==
  \E k \in 1..Len(produits) : produits[k].Title = reference

Produit(reference) ==
  produits[CHOOSE k \in 1..Len(produits) :
             /\ produits[k].Title = reference
             /\ \A j \in 1..(k - 1) : produits[j].Title # reference]

\* q_inv / q_inv_bis
QInv(reference, site) ==
  Somme(inventaire, {k \in 1..Len(inventaire) :
                       /\ inventaire[k].Title = reference
                       /\ inventaire[k].Site = site})

\* batiment / emplacement of the first inventory record of the site
PremierInventaire(reference, site) ==
  LET hits == {k \in 1..Len(inventaire) :
                 inventaire[k].Title = reference /\ inventaire[k].Site = site}
  IN  IF hits = {} THEN [Batiment |-> "", Emplacement |-> ""]
      ELSE LET k == CHOOSE k \in hits : \A j \in hits : k <= j
           IN  [Batiment |-> inventaire[k].Batiment,
                Emplacement |-> inventaire[k].Emplacement]

\* the reconciliation flag left out: every shipped-out record counts
CommittedSansReconciliation(l, reference, site) ==
  /\ l.Reference = reference
  /\ l.Statut \in {"Reservé", "Préparé", "Sortie produits"}
  /\ l.Site = site

\* the committed-set rule of q_resa / q_resa_bis
Committed(l, reference, site) ==
  /\ l.Reference = reference
  /\ l.Statut \in {"Reservé", "Préparé", "Sortie produits"}
  /\ l.Site = site
  /\ (l.Statut # "Sortie produits" \/ l.Comptabilise_inventaire # 1)

QResa(history, reference, site) ==
  Somme(history, {k \in 1..Len(history) :
                    Committed(history[k], reference, site)})

\* q_arriv: the generator raises ValueError on the first record of the
\* reference whose non-empty Date strptime rejects, when date_livraison is set
ArrivageRaises(reference, dl) ==
  \E k \in 1..Len(arrivages) :
    /\ arrivages[k].Title = reference
    /\ dl # <<>>
    /\ arrivages[k].Date # ""
    /\ ~DateParsable(arrivages[k].Date)

ArrivageCompte(a, reference, dl) ==
  /\ a.Title = reference
  /\ dl # <<>>
  /\ a.Date # ""
  /\ DateParsable(a.Date)
  /\ Strptime(a.Date) < dl[1]

QArriv(reference, dl) ==
  Somme(arrivages, {k \in 1..Len(arrivages) :
                      ArrivageCompte(arrivages[k], reference, dl)})

QEnCours(history, reference) ==
  Somme(history, {k \in 1..Len(history) :
                    /\ history[k].Reference = reference
                    /\ history[k].Statut = "Arrivage"})

\* the keys of the usage tracker
KeyMain(reference, site) == reference \o "_main_" \o site
KeySec(reference, site) == reference \o "_sec_" \o site
KeyArriv(reference) == reference \o "_arrivage"

\* usage_tracker.get(key, 0.0)
TrackerGet(tracker, key) == IF key \in DOMAIN tracker THEN tracker[key] ELSE 0

\* the dictionary rebuilt with the one entry: the other buckets are lost
TrackerSetSeul(tracker, key, value) == [k \in {key} |-> value]

\* the assignment left out: the tracker forgets what the line took
TrackerSetPerdu(tracker, key, value) == tracker

\* usage_tracker[key] = value
TrackerSet(tracker, key, value) ==
  [k \in DOMAIN tracker \cup {key} |-> IF k = key THEN value ELSE tracker[k]]

\* date_livraison = commande.get("Date_livraison"), parsed in try/except
ParseDateLivraison(value) ==
  IF value = "" THEN <<>>
  ELSE IF DateParsable(value) THEN <<Strptime(value)>>
  ELSE <<>>

\* the item of the list after a successful PATCH of its fields
Patch(liste, item_id, fields) ==
  [k \in 1..Len(liste) |->
     IF liste[k].id = item_id
     THEN [f \in DOMAIN liste[k] |->
             IF f \in DOMAIN fields THEN fields[f] ELSE liste[k][f]]
     ELSE liste[k]]

\* ------------------------------------------------------------------------
\* Initial states: the store before the first run
\* ------------------------------------------------------------------------
Detail(id, cmd, ref, q, statut, site, compta) ==
  [id |-> id, CMD_ID |-> cmd, Title |-> ref, Reference |-> ref,
   Quantite |-> q, Statut |-> statut, Site |-> site,
   Batiment |-> "", Emplacement |-> "", Comptabilise_inventaire |-> compta]

\* <<Reference, Quantite>> of a line of the order
LineKinds ==
  {<<"R1", "1">>, <<"R1", "2">>, <<"R1", "x">>, <<"R1", "-1">>,
   <<"R2", "1">>, <<"R3", "1">>, <<"R4", "2">>}

\* lines of another order, already decided
AutresLignes ==
  {<<"R1", "1", "Reservé", "A", 0>>,
   <<"R1", "1", "Arrivage", "", 0>>}

Inventaire(a, b) ==
  <<[Title |-> "R1", Site |-> "A", Quantite |-> "1",
     Batiment |-> "BatA1", Emplacement |-> "E1"]>> \o a \o
  <<[Title |-> "R1", Site |-> "B", Quantite |-> b,
     Batiment |-> "BatB", Emplacement |-> "E3"]>>

\* R1 on hand: 1 at A and 1 at B, or 3 at A (two records) and 2 at B
Inventaires ==
  {Inventaire(<<>>, "1"),
   Inventaire(<<[Title |-> "R1", Site |-> "A", Quantite |-> "2",
                 Batiment |-> "BatA2", Emplacement |-> "E2"]>>, "2")}

\* R1 and R4 are stocked, R2 is bought outside, R3 is not in the catalogue
Catalogue ==
  <<[Title |-> "R1", Origine |-> "SDF"], [Title |-> "R2", Origine |-> "UKOBA"],
    [Title |-> "R4", Origine |-> "SDF"]>>

SeqsUpTo(S, n) == UNION {[1..m -> S] : m \in 0..n}

Arrivage(ref, date, q) == [Title |-> ref, Date |-> date, Quantite |-> q]

LocalsVides ==
  [reference |-> "", quantite |-> 0, evaluated |-> <<>>, q_inv |-> 0,
   q_resa |-> 0, dispo |-> 0, dispo_bis |-> 0, q_arriv |-> 0,
   dispo_arriv |-> 0]

ReponseVide ==
  [status_code |-> 0, body |-> "", statut |-> "", ruptures |-> <<>>,
   nb_produits_commande |-> 0]

InitLocal ==
  /\ pc = "attente"
  /\ runs = 0
  /\ date_livraison = <<>>
  /\ details = <<>>
  /\ all_details_history = <<>>
  /\ usage_tracker = <<>>
  /\ ruptures = <<>>
  /\ idx = 1
  /\ loc = LocalsVides
  /\ outcome = <<>>
  /\ updates = <<>>
  /\ response = ReponseVide
  /\ appels = <<>>
  /\ req = [commande_id |-> 1, fourni |-> TRUE]
  /\ autre = <<>>

InitStore(lignes, autres, bis, livraison, arr) ==
  /\ commande = [Site_Stock |-> "A", Site_Stock_second |-> bis,
                 Date_livraison |-> livraison, Statut |-> "Brouillon"]
  /\ liste_details =
       [k \in 1..Len(lignes) |->
          Detail(k, commande_id, lignes[k][1], lignes[k][2], "", "", 0)]
       \o
       [k \in 1..Len(autres) |->
          Detail(Len(lignes) + k, 2, autres[k][1], autres[k][2],
                 autres[k][3], autres[k][4], autres[k][5])]
  /\ arrivages = arr

Livraison == "2025-03-10T18:00:00Z"
ArrivageAvant == Arrivage("R1", "2025-03-01T00:00:00Z", "2")
ArrivageApres == Arrivage("R1", "2025-03-15T00:00:00Z", "2")
ArrivageIllisible == Arrivage("R1", "10/03/2025", "2")
ArrivageR4 == Arrivage("R4", "2025-03-01T00:00:00Z", "2")

Init ==
  /\ InitLocal
  /\ \E lignes \in SeqsUpTo(LineKinds, MaxLines),
        autres \in SeqsUpTo(AutresLignes, 1),
        bis \in {"A", "B", "0"},
        arr \in {<<>>, <<ArrivageAvant>>, <<ArrivageApres>>,
                 <<ArrivageIllisible>>, <<ArrivageAvant, ArrivageR4>>} :
       InitStore(lignes, autres, bis, Livraison, arr)
  /\ produits = Catalogue
  /\ inventaire \in Inventaires

\* ------------------------------------------------------------------------
\* main, before the loop
\* ------------------------------------------------------------------------
\* return func.HttpResponse(body, status_code=code)
Respond(code, body) ==
  /\ response' = [ReponseVide EXCEPT !.status_code = code, !.body = body]
  /\ pc' = "fin"

\* str(e) of the exceptions raise_for_status and strptime raise
HTTPError == "Erreur serveur : HTTPError"
ValueErrorDate == "Erreur serveur : time data does not match format"

\* a call to the vault or to the gateway, the values its filter expression
\* names ("fields/Title eq 'v' or ...") and how it ended
AppelFiltre(fonction, liste, res, valeurs) ==
  [appel |-> fonction, liste |-> liste, res |-> res, filtre |-> valeurs]

\* a call of another kind
Appel(fonction, liste, res) == AppelFiltre(fonction, liste, res, <<>>)

\* the test of commande_id left out
RecevoirRequeteSansControle ==
  /\ pc = "attente"
  /\ runs < MaxRuns
  /\ runs' = runs + 1
  /\ \E present \in BOOLEAN :
       /\ req' = [req EXCEPT !.fourni = present]
       /\ pc' = "auth"
       /\ UNCHANGED response
  /\ UNCHANGED <<store, date_livraison, details, all_details_history,
                 usage_tracker, ruptures, idx, loc, outcome, updates,
                 appels, autre>>

\* body = req.get_json(); commande_id = body.get("commande_id")
RecevoirRequete ==
  /\ pc = "attente"
  /\ runs < MaxRuns
  /\ runs' = runs + 1
  /\ \E present \in BOOLEAN :
       /\ req' = [req EXCEPT !.fourni = present]
       /\ IF present
          THEN /\ pc' = "auth"
               /\ UNCHANGED response
          ELSE Respond(400, "Paramètre 'commande_id' requis")
  /\ UNCHANGED <<store, date_livraison, details, all_details_history,
                 usage_tracker, ruptures, idx, loc, outcome, updates,
                 appels, autre>>

\* str(e) of the exceptions main's except clause catches
VaultError == "Erreur serveur : vault"

\* the test of token left out: the run goes on with token None
AuthentifierSansControle ==
  /\ pc = "auth"
  /\ \E res \in {"ok", "sans token", "vault"} :
       IF res = "vault"
       THEN /\ appels' = Append(appels, Appel("get_secret", "", "erreur"))
            /\ Respond(500, VaultError)
       ELSE /\ appels' = appels \o
                         <<Appel("get_secret", "", "ok"),
                           Appel("get_graph_token", "",
                                 IF res = "ok" THEN "ok" ELSE "erreur")>>
            /\ pc' = "commande"
            /\ UNCHANGED response
  /\ UNCHANGED <<store, runs, date_livraison, details, all_details_history,
                 usage_tracker, ruptures, idx, loc, outcome, updates,
                 invocations>>

\* get_secret x 9, then get_graph_token, which returns None when the token
\* request fails or its answer carries no access_token
Authentifier ==
  /\ pc = "auth"
  /\ \E res \in {"ok", "sans token", "vault"} :
       IF res = "vault"
       THEN /\ appels' = Append(appels, Appel("get_secret", "", "erreur"))
            /\ Respond(500, VaultError)
       ELSE /\ appels' = appels \o
                         <<Appel("get_secret", "", "ok"),
                           Appel("get_graph_token", "",
                                 IF res = "ok" THEN "ok" ELSE "erreur")>>
            /\ IF res = "ok"
               THEN /\ pc' = "commande"
                    /\ UNCHANGED response
               ELSE Respond(500, "Échec de l'authentification Graph")
  /\ UNCHANGED <<store, runs, date_livraison, details, all_details_history,
                 usage_tracker, ruptures, idx, loc, outcome, updates,
                 invocations>>

\* the test of commande_item left out: commande_item.get raises on None
ChargerCommandeSansControle ==
  /\ pc = "commande"
  /\ \E res \in {"ok", "404", "erreur"} :
       /\ appels' = appels \o
                      <<Appel("get_site_name", "", "ok"),
                        Appel("graph_get_item_by_id", "commandes", res)>>
       /\ IF res = "ok"
          THEN /\ date_livraison' = ParseDateLivraison(commande.Date_livraison)
               /\ pc' = "details"
               /\ UNCHANGED response
          ELSE /\ Respond(500, "Erreur serveur : NoneType")
               /\ UNCHANGED date_livraison
  /\ UNCHANGED <<store, runs, details, all_details_history,
                 usage_tracker, ruptures, idx, loc, outcome, updates,
                 invocations>>

\* get_site_name, whose result is only logged, then graph_get_item_by_id of
\* the order, which returns None on a 404 and on any other failure, and the
\* parsing of the delivery date
ChargerCommande ==
  /\ pc = "commande"
  /\ \E res \in {"ok", "404", "erreur"} :
       /\ appels' = appels \o
                      <<Appel("get_site_name", "", "ok"),
                        Appel("graph_get_item_by_id", "commandes", res)>>
       /\ IF res = "ok"
          THEN /\ date_livraison' = ParseDateLivraison(commande.Date_livraison)
               /\ pc' = "details"
               /\ UNCHANGED response
          ELSE /\ Respond(404, "Commande introuvable")
               /\ UNCHANGED date_livraison
  /\ UNCHANGED <<store, runs, details, all_details_history,
                 usage_tracker, ruptures, idx, loc, outcome, updates,
                 invocations>>

\* details = graph_filtered_items(..., "fields/CMD_ID eq {commande_id}")
LignesDeCommande(liste) == SelectSeq(liste, LAMBDA l : l.CMD_ID = commande_id)

ChargerDetails ==
  /\ pc = "details"
  /\ \E ok \in BOOLEAN :
       /\ appels' = Append(appels, Appel("graph_filtered_items", "details",
                                         IF ok THEN "ok" ELSE "erreur"))
       /\ IF ok
          THEN /\ details' = LignesDeCommande(liste_details)
               /\ pc' = "global"
               /\ UNCHANGED response
          ELSE /\ Respond(500, HTTPError)
               /\ UNCHANGED details
  /\ UNCHANGED <<store, runs, date_livraison, all_details_history,
                 usage_tracker, ruptures, idx, loc, outcome, updates,
                 invocations>>

\* produits, inventaire, arrivages = graph_list_items(...): the three lists
\* are never written, the run reads them where it uses them
ListesGlobales == <<"produits", "inventaire", "arrivages">>

ChargerGlobal ==
  /\ pc = "global"
  /\ \E lues \in 0..Len(ListesGlobales) :
       /\ appels' = appels \o
            [k \in 1..(IF lues < Len(ListesGlobales) THEN lues + 1 ELSE lues)
               |-> Appel("graph_list_items", ListesGlobales[k],
                         IF k <= lues THEN "ok" ELSE "erreur")]
       /\ IF lues = Len(ListesGlobales)
          THEN /\ pc' = "historique"
               /\ UNCHANGED response
          ELSE Respond(500, HTTPError)
  /\ UNCHANGED <<store, runs, date_livraison, details, all_details_history,
                 usage_tracker, ruptures, idx, loc, outcome, updates,
                 invocations>>

\* references_utiles: the distinct non-empty Title of the lines of the order
ReferencesUtiles(lignes) ==
  {lignes[k].Title : k \in {j \in 1..Len(lignes) : lignes[j].Title # ""}}

\* list(set(...)): the values of the set, in an order of the set's own
RECURSIVE ListeDeSet(_)
ListeDeSet(S) ==
  IF S = {} THEN <<>>
  ELSE LET v == CHOOSE v \in S : TRUE IN <<v>> \o ListeDeSet(S \ {v})

\* chunk_size=20 of the call of split_filter_queries
ChunkSize == 20

\* split_filter_queries: the values of each clause, values[i:i + chunk_size]
\* for i in range(0, len(values), chunk_size)
SplitFilterQueries(values, chunk_size) ==
  [c \in 1..((Len(values) + chunk_size - 1) \div chunk_size) |->
     SubSeq(values, (c - 1) * chunk_size + 1,
            IF c * chunk_size < Len(values) THEN c * chunk_size
            ELSE Len(values))]

\* the answer to one query "fields/Title eq v or ..."
Historique(liste, refs) == SelectSeq(liste, LAMBDA l : l.Title \in refs)

\* all_details_history.extend(...) for the first n clauses
RECURSIVE HistoriqueClauses(_, _, _)
HistoriqueClauses(liste, clauses, n) ==
  IF n = 0 THEN <<>>
  ELSE HistoriqueClauses(liste, clauses, n - 1)
       \o Historique(liste, {clauses[n][k] : k \in 1..Len(clauses[n])})

filter_clauses ==
  SplitFilterQueries(ListeDeSet(ReferencesUtiles(details)), ChunkSize)

\* the history queries, one per clause and none when there is no reference,
\* then usage_tracker = {} and ruptures = []; a query that fails ends the run
ChargerHistorique ==
  /\ pc = "historique"
  /\ \E lues \in 0..Len(filter_clauses) :
     LET ok == lues = Len(filter_clauses) IN
       /\ appels' = appels \o
            [k \in 1..(IF ok THEN lues ELSE lues + 1) |->
               AppelFiltre("graph_filtered_items", "details",
                           IF k <= lues THEN "ok" ELSE "erreur",
                           filter_clauses[k])]
       /\ IF ok
          THEN /\ all_details_history' =
                    HistoriqueClauses(liste_details, filter_clauses,
                                      Len(filter_clauses))
               /\ usage_tracker' = <<>>
               /\ ruptures' = <<>>
               /\ idx' = 1
               /\ outcome' = [k \in 1..Len(details) |-> ""]
               /\ pc' = "boucle"
               /\ UNCHANGED response
          ELSE /\ Respond(500, HTTPError)
               /\ UNCHANGED <<all_details_history, usage_tracker, ruptures,
                              idx, outcome>>
  /\ UNCHANGED <<store, runs, date_livraison, details, loc, updates,
                 invocations>>

\* ------------------------------------------------------------------------
\* The loop over the lines of the order: locals of the iteration
\* ------------------------------------------------------------------------
EnBoucle == pc = "boucle" /\ idx <= Len(details)

Ligne == details[idx]
reference == Ligne.Reference
quantite == ParseFloat(Ligne.Quantite)

\* the origin test left out: every catalogued product is stock-controlled
EstSDFSansOrigine == ProduitTrouve(reference)

\* produit found and origine == "SDF"
EstSDF == ProduitTrouve(reference) /\ Produit(reference).Origine = "SDF"

\* deja_pris left out of the subtraction
DispoSansDejaPris ==
  QInv(reference, site_stock)
  - QResa(all_details_history, reference, site_stock)

\* dispo = q_inv - q_resa - deja_pris
Dispo ==
  QInv(reference, site_stock)
  - QResa(all_details_history, reference, site_stock)
  - TrackerGet(usage_tracker, KeyMain(reference, site_stock))

\* the sentinel "0" taken for a site
SecondaireDeclareSansSentinelle == site_stock_bis # ""

\* if site_stock_bis and site_stock_bis != "0"
SecondaireDeclare == site_stock_bis # "" /\ site_stock_bis # "0"

\* dispo_bis = q_inv_bis - q_resa_bis - deja_pris_sec
DispoBis ==
  QInv(reference, site_stock_bis)
  - QResa(all_details_history, reference, site_stock_bis)
  - TrackerGet(usage_tracker, KeySec(reference, site_stock_bis))

\* q_en_cours left out of the subtraction
DispoArrivSansEnCours ==
  QArriv(reference, date_livraison)
  - TrackerGet(usage_tracker, KeyArriv(reference))

\* dispo_arriv = (q_arriv - q_en_cours) - deja_pris_arriv
DispoArriv ==
  (QArriv(reference, date_livraison)
   - QEnCours(all_details_history, reference))
  - TrackerGet(usage_tracker, KeyArriv(reference))

\* the comparison made strict
PrincipalSuffitStrict == Dispo > quantite

\* if dispo >= quantite
PrincipalSuffit == Dispo >= quantite

\* the comparison made strict
SecondaireSuffitStrict == SecondaireDeclare /\ DispoBis > quantite

\* if site_stock_bis and site_stock_bis != "0": ... if dispo_bis >= quantite
SecondaireSuffit == SecondaireDeclare /\ DispoBis >= quantite

\* if dispo_arriv >= quantite
ArrivageSuffit == DispoArriv >= quantite

\* the line reaches "# 3. Arrivage"
PasseArrivage == EstSDF /\ ~PrincipalSuffit /\ ~SecondaireSuffit

\* the locals main assigns in an iteration that evaluates the given stages;
\* a local the iteration does not assign is 0
Locals(stages) ==
  LET fait(st) == st \in {stages[k] : k \in 1..Len(stages)}
  IN  [reference |-> reference, quantite |-> quantite, evaluated |-> stages,
       q_inv |-> IF fait("main") THEN QInv(reference, site_stock) ELSE 0,
       q_resa |-> IF fait("main")
                  THEN QResa(all_details_history, reference, site_stock)
                  ELSE 0,
       dispo |-> IF fait("main") THEN Dispo ELSE 0,
       dispo_bis |-> IF fait("sec") THEN DispoBis ELSE 0,
       q_arriv |-> IF fait("arrivage")
                   THEN QArriv(reference, date_livraison) ELSE 0,
       dispo_arriv |-> IF fait("arrivage") THEN DispoArriv ELSE 0]

\* the stages a line evaluates up to and including the secondary site
StagesSec == IF SecondaireDeclare THEN <<"main", "sec">> ELSE <<"main">>

\* a failed PATCH undoes the run: the lines of the order are written back
\* as they were fetched
UpdateLigneAnnule(fields, branch, tracker) ==
  \E ok \in BOOLEAN :
    /\ appels' = Append(appels, Appel("graph_update_field", "details",
                                      IF ok THEN "ok" ELSE "erreur"))
    /\ IF ok
       THEN /\ liste_details' = Patch(liste_details, Ligne.id, fields)
            /\ updates' = Append(updates,
                                 [liste |-> "details", id |-> Ligne.id,
                                  Statut |-> fields.Statut])
            /\ usage_tracker' = tracker
            /\ outcome' = [outcome EXCEPT ![idx] = branch]
            /\ idx' = idx + 1
            /\ UNCHANGED <<pc, response>>
       ELSE /\ Respond(500, HTTPError)
            /\ liste_details' =
                 [k \in 1..Len(liste_details) |->
                    IF \E i \in 1..Len(details) :
                         details[i].id = liste_details[k].id
                    THEN details[CHOOSE i \in 1..Len(details) :
                                   details[i].id = liste_details[k].id]
                    ELSE liste_details[k]]
            /\ UNCHANGED <<updates, usage_tracker, outcome, idx>>

\* raise_for_status left out of graph_update_field: a failed PATCH is
\* swallowed and the branch goes on
UpdateLigneAvale(fields, branch, tracker) ==
  \E ok \in BOOLEAN :
    /\ appels' = Append(appels, Appel("graph_update_field", "details",
                                      IF ok THEN "ok" ELSE "erreur"))
    /\ liste_details' = IF ok THEN Patch(liste_details, Ligne.id, fields)
                        ELSE liste_details
    /\ updates' = IF ok
                  THEN Append(updates, [liste |-> "details", id |-> Ligne.id,
                                        Statut |-> fields.Statut])
                  ELSE updates
    /\ usage_tracker' = tracker
    /\ outcome' = [outcome EXCEPT ![idx] = branch]
    /\ idx' = idx + 1
    /\ UNCHANGED <<pc, response>>

\* graph_update_field on the current line, then what follows it in the
\* branch: raise_for_status raises when the PATCH failed
UpdateLigne(fields, branch, tracker) ==
  \E ok \in BOOLEAN :
    /\ appels' = Append(appels, Appel("graph_update_field", "details",
                                      IF ok THEN "ok" ELSE "erreur"))
    /\ IF ok
       THEN /\ liste_details' = Patch(liste_details, Ligne.id, fields)
            /\ updates' = Append(updates,
                                 [liste |-> "details", id |-> Ligne.id,
                                  Statut |-> fields.Statut])
            /\ usage_tracker' = tracker
            /\ outcome' = [outcome EXCEPT ![idx] = branch]
            /\ idx' = idx + 1
            /\ UNCHANGED <<pc, response>>
       ELSE /\ Respond(500, HTTPError)
            /\ UNCHANGED <<liste_details, updates, usage_tracker, outcome,
                           idx>>

\* break in the place of continue: the not-found line ends the loop
LigneProduitIntrouvableBreak ==
  /\ EnBoucle
  /\ ~ProduitTrouve(reference)
  /\ ruptures' = Append(ruptures, [reference |-> reference,
                                   raison |-> "produit introuvable"])
  /\ outcome' = [outcome EXCEPT ![idx] = "introuvable"]
  /\ loc' = Locals(<<>>)
  /\ idx' = Len(details) + 1
  /\ UNCHANGED <<store, pc, runs, date_livraison, details,
                 all_details_history, usage_tracker, updates, response,
                 appels, invocations>>

\* if not produit: ruptures.append(...); continue
LigneProduitIntrouvable ==
  /\ EnBoucle
  /\ ~ProduitTrouve(reference)
  /\ ruptures' = Append(ruptures, [reference |-> reference,
                                   raison |-> "produit introuvable"])
  /\ outcome' = [outcome EXCEPT ![idx] = "introuvable"]
  /\ loc' = Locals(<<>>)
  /\ idx' = idx + 1
  /\ UNCHANGED <<store, pc, runs, date_livraison, details,
                 all_details_history, usage_tracker, updates, response,
                 appels, invocations>>

\* else: graph_update_field(..., {"Statut": "Commandé"})
LigneNonSDF ==
  /\ EnBoucle
  /\ ProduitTrouve(reference)
  /\ ~EstSDF
  /\ loc' = Locals(<<>>)
  /\ UpdateLigne([Statut |-> "Commandé"], "commande", usage_tracker)
  /\ UNCHANGED <<commande, produits, inventaire, arrivages, runs,
                 date_livraison, details, all_details_history, ruptures,
                 invocations>>

\* 1. Site Principal
LignePrincipal ==
  /\ EnBoucle
  /\ EstSDF
  /\ PrincipalSuffit
  /\ loc' = Locals(<<"main">>)
  /\ UpdateLigne(
       [Statut |-> "Reservé", Site |-> site_stock,
        Batiment |-> PremierInventaire(reference, site_stock).Batiment,
        Emplacement |-> PremierInventaire(reference, site_stock).Emplacement],
       "main",
       TrackerSet(usage_tracker, KeyMain(reference, site_stock),
                  TrackerGet(usage_tracker, KeyMain(reference, site_stock))
                  + quantite))
  /\ UNCHANGED <<commande, produits, inventaire, arrivages, runs,
                 date_livraison, details, all_details_history, ruptures,
                 invocations>>

\* 2. Site Secondaire
LigneSecondaire ==
  /\ EnBoucle
  /\ EstSDF
  /\ ~PrincipalSuffit
  /\ SecondaireSuffit
  /\ loc' = Locals(<<"main", "sec">>)
  /\ UpdateLigne(
       [Statut |-> "Reservé", Site |-> site_stock_bis,
        Batiment |-> PremierInventaire(reference, site_stock_bis).Batiment,
        Emplacement |->
          PremierInventaire(reference, site_stock_bis).Emplacement],
       "sec",
       TrackerSet(usage_tracker, KeySec(reference, site_stock_bis),
                  TrackerGet(usage_tracker, KeySec(reference, site_stock_bis))
                  + quantite))
  /\ UNCHANGED <<commande, produits, inventaire, arrivages, runs,
                 date_livraison, details, all_details_history, ruptures,
                 invocations>>

\* 3. Arrivage: strptime of a shipment date raises, caught by main's except
LigneErreurDate ==
  /\ EnBoucle
  /\ PasseArrivage
  /\ ArrivageRaises(reference, date_livraison)
  /\ loc' = Locals(StagesSec)
  /\ Respond(500, ValueErrorDate)
  /\ UNCHANGED <<store, runs, date_livraison, details, all_details_history,
                 usage_tracker, ruptures, idx, outcome, updates, appels,
                 invocations>>

\* 3. Arrivage: if dispo_arriv >= quantite
LigneArrivage ==
  /\ EnBoucle
  /\ PasseArrivage
  /\ ~ArrivageRaises(reference, date_livraison)
  /\ ArrivageSuffit
  /\ loc' = Locals(StagesSec \o <<"arrivage">>)
  /\ UpdateLigne(
       [Statut |-> "Arrivage"],
       "arrivage",
       TrackerSet(usage_tracker, KeyArriv(reference),
                  TrackerGet(usage_tracker, KeyArriv(reference)) + quantite))
  /\ UNCHANGED <<commande, produits, inventaire, arrivages, runs,
                 date_livraison, details, all_details_history, ruptures,
                 invocations>>

\* the update commented out at line 337 put back: the shortage line is
\* updated as well as listed
LigneRuptureAvecUpdate ==
  /\ EnBoucle
  /\ PasseArrivage
  /\ ~ArrivageRaises(reference, date_livraison)
  /\ ~ArrivageSuffit
  /\ loc' = Locals(StagesSec \o <<"arrivage">>)
  /\ UpdateLigne([Statut |-> "Rupture SdF"], "rupture", usage_tracker)
  /\ ruptures' = IF idx' = idx + 1
                 THEN Append(ruptures,
                             [reference |-> reference,
                              raison |-> "stock et arrivage insuffisants"])
                 ELSE ruptures
  /\ UNCHANGED <<commande, produits, inventaire, arrivages, runs,
                 date_livraison, details, all_details_history, invocations>>

\* Rupture: ruptures.append(...)
LigneRupture ==
  /\ EnBoucle
  /\ PasseArrivage
  /\ ~ArrivageRaises(reference, date_livraison)
  /\ ~ArrivageSuffit
  /\ loc' = Locals(StagesSec \o <<"arrivage">>)
  /\ ruptures' = Append(ruptures, [reference |-> reference,
                           raison |-> "stock et arrivage insuffisants"])
  /\ outcome' = [outcome EXCEPT ![idx] = "rupture"]
  /\ idx' = idx + 1
  /\ UNCHANGED <<store, pc, runs, date_livraison, details,
                 all_details_history, usage_tracker, updates, response,
                 appels, invocations>>

\* MISE A JOUR DU STATUT DE LA COMMANDE and the 200 response
\* the test of ruptures left out
StatutCommandeSansRupture(r) == "Validé"

StatutCommande(r) == IF r = <<>> THEN "Validé" ELSE "Validé (Rupture SdF)"
StatutFinal(r) == IF r = <<>> THEN "OK" ELSE "Rupture"

Terminer ==
  /\ pc = "boucle"
  /\ idx > Len(details)
  /\ \E ok \in BOOLEAN :
       /\ appels' = Append(appels, Appel("graph_update_field", "commandes",
                                         IF ok THEN "ok" ELSE "erreur"))
       /\ IF ok
          THEN /\ commande' =
                    [commande EXCEPT !.Statut = StatutCommande(ruptures)]
               /\ updates' = Append(updates,
                                    [liste |-> "commandes", id |-> commande_id,
                                     Statut |-> StatutCommande(ruptures)])
               /\ response' = [status_code |-> 200, body |-> "json",
                               statut |-> StatutFinal(ruptures),
                               ruptures |-> ruptures,
                               nb_produits_commande |-> Len(details)]
               /\ pc' = "fin"
          ELSE /\ Respond(500, HTTPError)
               /\ UNCHANGED <<commande, updates>>
  /\ UNCHANGED <<liste_details, produits, inventaire, arrivages, runs,
                 date_livraison, details, all_details_history, usage_tracker,
                 ruptures, idx, loc, outcome, invocations>>

\* a new invocation of main for the same order: its locals are fresh
Relancer ==
  /\ pc = "fin"
  /\ runs < MaxRuns
  /\ pc' = "attente"
  /\ date_livraison' = <<>>
  /\ details' = <<>>
  /\ all_details_history' = <<>>
  /\ usage_tracker' = <<>>
  /\ ruptures' = <<>>
  /\ idx' = 1
  /\ loc' = LocalsVides
  /\ outcome' = <<>>
  /\ updates' = <<>>
  /\ response' = ReponseVide
  /\ appels' = <<>>
  /\ req' = [req EXCEPT !.fourni = TRUE]
  /\ UNCHANGED <<store, runs, autre>>

\* ------------------------------------------------------------------------
\* Specifications
\* ------------------------------------------------------------------------
Run ==
  \/ RecevoirRequete
  \/ Authentifier
  \/ ChargerCommande
  \/ ChargerDetails
  \/ ChargerGlobal
  \/ ChargerHistorique
  \/ LigneProduitIntrouvable
  \/ LigneNonSDF
  \/ LignePrincipal
  \/ LigneSecondaire
  \/ LigneErreurDate
  \/ LigneArrivage
  \/ LigneRupture
  \/ Terminer

Next == Run

\* one run of main on a store whose dates all parse
Spec == Init /\ [][Next]_vars

\* one run of main on a store whose dates vary: delivery date set, empty or
\* unreadable; shipments before, on and after the delivery day, undated or
\* unreadable
ArrivageMemeJour == Arrivage("R1", "2025-03-10T00:00:00Z", "2")
ArrivageSansDate == Arrivage("R1", "", "2")
ArrivageAvantBis == Arrivage("R1", "2025-03-01T00:00:00Z", "1")

InitDates ==
  /\ InitLocal
  /\ \E lignes \in SeqsUpTo(LineKinds, MaxLines),
        livraison \in {Livraison, "", "10/03/2025", "2025-03-15T00:00:00Z"},
        arr \in {<<>>, <<ArrivageAvant>>, <<ArrivageMemeJour>>,
                 <<ArrivageApres>>, <<ArrivageIllisible>>,
                 <<ArrivageSansDate>>, <<ArrivageAvant, ArrivageMemeJour>>,
                 <<ArrivageAvant, ArrivageApres>>,
                 <<ArrivageR4, ArrivageAvantBis>>,
                 <<ArrivageMemeJour, ArrivageIllisible>>} :
       InitStore(lignes, <<>>, "B", livraison, arr)
  /\ produits = Catalogue
  /\ inventaire = Inventaire(<<>>, "1")

SpecDates == InitDates /\ [][Next]_vars

\* main run again for the same order, the store as the earlier run left it
InitRerun ==
  /\ InitLocal
  /\ \E lignes \in SeqsUpTo(LineKinds, MaxLines),
        bis \in {"B", "0"},
        arr \in {<<ArrivageAvant>>, <<ArrivageIllisible>>} :
       InitStore(lignes, <<>>, bis, Livraison, arr)
  /\ produits = Catalogue
  /\ inventaire \in Inventaires

NextRerun == Run \/ Relancer

SpecRerun == InitRerun /\ [][NextRerun]_vars

\* ------------------------------------------------------------------------
\* The quantities the properties speak of, read from the store
\* ------------------------------------------------------------------------
Refs == {"R1", "R2", "R3", "R4"}
Sites == {"A", "B"}

RECURSIVE Total(_, _)
Total(f, I) ==
  IF I = {} THEN 0
  ELSE LET i == CHOOSE i \in I : TRUE IN f[i] + Total(f, I \ {i})

\* the number a quantity field denotes, 0 when it denotes none
Qte(v) == IF v \in DOMAIN NumeralValue THEN NumeralValue[v] ELSE 0

QteTotale(seq, I) == Total([k \in 1..Len(seq) |-> Qte(seq[k].Quantite)], I)

\* on-hand quantity of reference r at site s
OnHand(r, s) ==
  QteTotale(inventaire, {k \in 1..Len(inventaire) :
                           inventaire[k].Title = r /\ inventaire[k].Site = s})

\* committed reservations of reference r at site s among the records h
CommittedQty(h, r, s) ==
  QteTotale(h, {k \in 1..Len(h) :
                  /\ h[k].Reference = r
                  /\ h[k].Site = s
                  /\ \/ h[k].Statut \in {"Reservé", "Préparé"}
                     \/ /\ h[k].Statut = "Sortie produits"
                        /\ h[k].Comptabilise_inventaire # 1})

\* what the lines of the order hold reserved of reference r at site s
ReservedByOrder(r, s) ==
  QteTotale(liste_details,
            {k \in 1..Len(liste_details) :
               /\ liste_details[k].CMD_ID = commande_id
               /\ liste_details[k].Statut = "Reservé"
               /\ liste_details[k].Reference = r
               /\ liste_details[k].Site = s})

QuantitesNonNegatives ==
  \A k \in 1..Len(details) : Qte(details[k].Quantite) >= 0

\* ------------------------------------------------------------------------
\* Properties
\* ------------------------------------------------------------------------

\* C1: in one run with non-negative requested quantities, for every
\* reference and every physical site, the quantities of the lines the run
\* reserves at the site never exceed the site's on-hand quantity minus its
\* committed reservations, whatever the primary and secondary sites are.
C1_NoOversellPerSite ==
  QuantitesNonNegatives =>
    \A r \in Refs, s \in Sites :
      ReservedByOrder(r, s)
        <= OnHand(r, s) - CommittedQty(all_details_history, r, s)

\* the same bound, for the orders whose secondary site is another site than
\* the primary one
NoOversellDistinctSites ==
  (QuantitesNonNegatives /\ site_stock_bis # site_stock) =>
    \A r \in Refs, s \in Sites :
      ReservedByOrder(r, s)
        <= OnHand(r, s) - CommittedQty(all_details_history, r, s)

\* ------------------------------------------------------------------------
\* The line the loop is about to decide, in the words of the properties
\* ------------------------------------------------------------------------
InterneStocke(r) ==
  \E k \in 1..Len(produits) :
    produits[k].Title = r /\ produits[k].Origine = "SDF"

AuCatalogue(r) == \E k \in 1..Len(produits) : produits[k].Title = r

Usage(tracker, key) == IF key \in DOMAIN tracker THEN tracker[key] ELSE 0

LigneRef == details[idx].Reference
LigneQte == Qte(details[idx].Quantite)

\* on-hand minus committed reservations minus tracker usage of the bucket
AvailPrincipal ==
  OnHand(LigneRef, site_stock)
  - CommittedQty(all_details_history, LigneRef, site_stock)
  - Usage(usage_tracker, KeyMain(LigneRef, site_stock))

AvailSecondaire ==
  OnHand(LigneRef, site_stock_bis)
  - CommittedQty(all_details_history, LigneRef, site_stock_bis)
  - Usage(usage_tracker, KeySec(LigneRef, site_stock_bis))

SecondaireNomme == site_stock_bis \notin {"", "0"}

\* the iteration on the current line runs to its end: no gateway call of it
\* fails and nothing raises
LigneDecidee == EnBoucle /\ idx' = idx + 1

\* the record of the current line in the store
LigneStore(liste) ==
  liste[CHOOSE k \in 1..Len(liste) : liste[k].id = details[idx].id]

\* C2: of two lines of a run that request the same internally-stocked
\* reference, each fitting the primary-site availability and their sum
\* exceeding it, the first in gateway order is allocated from the primary
\* bucket and the second is not: it falls through to secondary, incoming or
\* shortage.
DeuxPremieres(i, j) ==
  /\ i < j
  /\ details[i].Reference = details[j].Reference
  /\ \A k \in 1..(j - 1) :
       k # i => details[k].Reference # details[i].Reference

Concurrentes(i, j) ==
  LET r == details[i].Reference
      dispo == OnHand(r, site_stock)
               - CommittedQty(all_details_history, r, site_stock)
  IN  /\ DeuxPremieres(i, j)
      /\ InterneStocke(r)
      /\ Qte(details[i].Quantite) <= dispo
      /\ Qte(details[j].Quantite) <= dispo
      /\ Qte(details[i].Quantite) + Qte(details[j].Quantite) > dispo

C2_FirstLineTakesPrimary ==
  (pc \in {"boucle", "fin"} /\ Len(outcome) = Len(details)) =>
    \A i, j \in 1..Len(details) :
      Concurrentes(i, j) =>
        /\ outcome[i] # "" => outcome[i] = "main"
        /\ outcome[j] # "" => outcome[j] \in {"sec", "arrivage", "rupture"}

C2_Witness ==
  /\ pc = "fin"
  /\ response.status_code = 200
  /\ \E i, j \in 1..Len(details) :
       /\ Concurrentes(i, j)
       /\ outcome[i] = "main"
       /\ outcome[j] = "sec"

\* C4: a line of an internally-stocked product whose primary-site
\* availability is at least the requested quantity is allocated from the
\* primary site; the secondary and incoming evaluations are not performed:
\* their tracker buckets are unchanged and the status written is the
\* primary reservation.
C4_PrimarySufficient ==
  [][(LigneDecidee /\ InterneStocke(LigneRef) /\ AvailPrincipal >= LigneQte)
       => /\ outcome'[idx] = "main"
          /\ loc'.evaluated = <<"main">>
          /\ LigneStore(liste_details').Statut = "Reservé"
          /\ LigneStore(liste_details').Site = site_stock
          /\ Usage(usage_tracker', KeyMain(LigneRef, site_stock))
               = Usage(usage_tracker, KeyMain(LigneRef, site_stock)) + LigneQte
          /\ Usage(usage_tracker', KeySec(LigneRef, site_stock_bis))
               = Usage(usage_tracker, KeySec(LigneRef, site_stock_bis))
          /\ Usage(usage_tracker', KeyArriv(LigneRef))
               = Usage(usage_tracker, KeyArriv(LigneRef))]_vars

C4_Witness ==
  /\ pc = "boucle"
  /\ idx > 1
  /\ outcome[idx - 1] = "main"
  /\ SecondaireNomme
  /\ loc.dispo >= loc.quantite
  /\ loc.quantite > 0
  /\ \E k \in 1..Len(arrivages) : arrivages[k].Title = loc.reference

\* C3: when the run is executed twice for the same order (the first run
\* completed and patched the order), the reservation
\* the first run wrote for a line is not subtracted from the availability
\* that decides the same line in the second run: the committed quantity the
\* second run subtracts for the line is that of the other lines only.
C3_OwnReservationNotSubtracted ==
  (/\ runs >= 2
   /\ commande.Statut # "Brouillon"
   /\ pc = "boucle"
   /\ idx > 1
   /\ loc.evaluated # <<>>
   /\ details[idx - 1].Statut = "Reservé"
   /\ details[idx - 1].Site = site_stock)
  => loc.q_resa =
       CommittedQty(SelectSeq(all_details_history,
                              LAMBDA l : l.id # details[idx - 1].id),
                    loc.reference, site_stock)

Max(a, b) == IF a >= b THEN a ELSE b

\* C5 as stated: a line whose primary-site availability is less than the
\* requested quantity, and whose declared secondary site covers the
\* remainder (the request minus what the primary site can supply), is
\* allocated from the secondary site; stated for a secondary site that is
\* another site than the primary one.
C5_SecondaryCoversRemainder ==
  [][(/\ LigneDecidee
      /\ InterneStocke(LigneRef)
      /\ AvailPrincipal < LigneQte
      /\ SecondaireNomme
      /\ site_stock_bis # site_stock
      /\ AvailSecondaire >= LigneQte - Max(AvailPrincipal, 0))
       => outcome'[idx] = "sec"]_vars

\* C5 amended: the secondary site is the source when the primary-site
\* availability is less than the requested quantity and the availability of
\* the declared secondary site is at least the whole requested quantity.
C5_SecondaryCoversWhole ==
  [][(/\ LigneDecidee
      /\ InterneStocke(LigneRef)
      /\ AvailPrincipal < LigneQte
      /\ SecondaireNomme
      /\ AvailSecondaire >= LigneQte)
       => /\ outcome'[idx] = "sec"
          /\ LigneStore(liste_details').Statut = "Reservé"
          /\ LigneStore(liste_details').Site = site_stock_bis]_vars

C5_Witness ==
  /\ pc = "boucle"
  /\ idx > 1
  /\ outcome[idx - 1] = "sec"
  /\ loc.dispo < loc.quantite
  /\ loc.dispo_bis >= loc.quantite
  /\ loc.dispo > 0

\* the incoming availability of the reference of the current line: shipments
\* of the reference dated before the delivery date, minus the lines of any
\* order already in status Arrivage, minus the usage of the incoming bucket
JourLivre ==
  IF commande.Date_livraison \in DOMAIN DateValue
  THEN {DateValue[commande.Date_livraison][1]} ELSE {}

Contribue(a, r) ==
  /\ a.Title = r
  /\ a.Date \in DOMAIN DateValue
  /\ \E jour \in JourLivre : DateValue[a.Date][1] < jour

Incoming(r) ==
  QteTotale(arrivages,
            {k \in 1..Len(arrivages) : Contribue(arrivages[k], r)})

EnArrivage(r) ==
  QteTotale(all_details_history,
            {k \in 1..Len(all_details_history) :
               /\ all_details_history[k].Reference = r
               /\ all_details_history[k].Statut = "Arrivage"})

AvailArrivage ==
  Incoming(LigneRef) - EnArrivage(LigneRef)
  - Usage(usage_tracker, KeyArriv(LigneRef))

C8_NotFoundContinues ==
  /\ [][(EnBoucle /\ ~AuCatalogue(LigneRef))
          => /\ ruptures' = Append(ruptures,
                                   [reference |-> LigneRef,
                                    raison |-> "produit introuvable"])
             /\ pc' = "boucle"
             /\ idx' = idx + 1
             /\ response' = response
             /\ liste_details' = liste_details]_vars
  /\ []((pc = "fin" /\ response.status_code = 200)
          => \A k \in 1..Len(details) : outcome[k] # "")

C8_Witness ==
  /\ pc = "fin"
  /\ response.status_code = 200
  /\ Len(details) = 2
  /\ outcome[1] = "introuvable"
  /\ outcome[2] = "main"
  /\ response.ruptures = <<[reference |-> details[1].Reference,
                            raison |-> "produit introuvable"]>>

\* C9: a line whose product exists with an origin other than SDF always
\* succeeds: no availability is computed, it is not added to the shortage
\* list, the tracker is untouched and its status becomes Commandé.
C9_ExternalAlwaysOrdered ==
  [][(LigneDecidee /\ AuCatalogue(LigneRef) /\ ~InterneStocke(LigneRef))
       => /\ outcome'[idx] = "commande"
          /\ LigneStore(liste_details').Statut = "Commandé"
          /\ loc'.evaluated = <<>>
          /\ ruptures' = ruptures
          /\ usage_tracker' = usage_tracker]_vars

C9_Witness ==
  /\ pc = "fin"
  /\ response.status_code = 200
  /\ response.statut = "OK"
  /\ \E k \in 1..Len(details) :
       /\ outcome[k] = "commande"
       /\ OnHand(details[k].Reference, site_stock) = 0
       /\ LignesDeCommande(liste_details)[k].Statut = "Commandé"

\* C10: a date field that cannot be parsed never fails the run, be it the
\* delivery date of the order or the date of an incoming-shipment record:
\* no run ends with the server error of a date that does not parse.
C10_UnparsableDateNeverFails ==
  ~(pc = "fin" /\ response.status_code = 500 /\ response.body = ValueErrorDate)

\* C7: a shipment record contributes its quantity to the incoming
\* availability of a line if and only if it has the reference of the line,
\* the order has a delivery date and the calendar date of the shipment is
\* strictly earlier than the delivery calendar date: the q_arriv the run
\* computes for a line is the sum of the quantities of exactly these records.
C7_ShipmentCountsIffBefore ==
  ("arrivage" \in {loc.evaluated[k] : k \in 1..Len(loc.evaluated)})
    => loc.q_arriv = Incoming(loc.reference)

C7_Witness ==
  /\ "arrivage" \in {loc.evaluated[k] : k \in 1..Len(loc.evaluated)}
  /\ arrivages = <<ArrivageAvant, ArrivageMemeJour>>
  /\ commande.Date_livraison = Livraison
  /\ loc.reference = "R1"
  /\ loc.q_arriv = 2

\* ------------------------------------------------------------------------
\* Quantity fields that float() rejects
\* ------------------------------------------------------------------------
\* one run of main on a store where quantity fields of lines, inventory
\* records, reservation records and shipment records are not numbers
InventaireIllisible ==
  [Title |-> "R1", Site |-> "A", Quantite |-> "x",
   Batiment |-> "BatA2", Emplacement |-> "E2"]

InitQuantites ==
  /\ InitLocal
  /\ \E lignes \in SeqsUpTo({<<"R1", "1">>, <<"R1", "2">>, <<"R1", "x">>,
                             <<"R1", "">>, <<"R2", "x">>, <<"R3", "1">>},
                            MaxLines),
        autres \in SeqsUpTo({<<"R1", "x", "Reservé", "A", 0>>,
                             <<"R1", "1", "Reservé", "A", 0>>,
                             <<"R1", "x", "Arrivage", "", 0>>}, 1),
        arr \in {<<Arrivage("R1", "2025-03-01T00:00:00Z", "x")>>,
                 <<ArrivageAvant, Arrivage("R1", "2025-03-01T00:00:00Z", "")>>,
                 <<ArrivageIllisible>>} :
       InitStore(lignes, autres, "B", Livraison, arr)
  /\ produits = Catalogue
  /\ inventaire \in {Inventaire(<<InventaireIllisible>>, "1"),
                     Inventaire(<<>>, "x"),
                     Inventaire(<<>>, "2")}

SpecQuantites == InitQuantites /\ [][Next]_vars

Numerique(v) == v \in DOMAIN NumeralValue

Evalue(stage) == stage \in {loc.evaluated[k] : k \in 1..Len(loc.evaluated)}

TousAppelsReussis == \A k \in 1..Len(appels) : appels[k].res = "ok"

\* C11: a quantity field that is not a number counts for zero and never
\* raises: the requested quantity of a line whose field is not a number is 0,
\* the on-hand, committed, awaiting-incoming and shipment sums of an
\* iteration are the sums over the records whose field is a number, and a
\* run whose calls all succeed fails only on a date, never on a quantity.
C11_UnparsableQuantityIsZero ==
  /\ (pc = "boucle" /\ idx > 1 /\ loc.reference = details[idx - 1].Reference)
       => /\ ~Numerique(details[idx - 1].Quantite) => loc.quantite = 0
          /\ Evalue("main") =>
               /\ loc.q_inv = OnHand(loc.reference, site_stock)
               /\ loc.q_resa = CommittedQty(all_details_history,
                                            loc.reference, site_stock)
          /\ Evalue("arrivage") =>
               /\ loc.q_arriv = Incoming(loc.reference)
               /\ loc.dispo_arriv =
                    Incoming(loc.reference) - EnArrivage(loc.reference)
                    - (Usage(usage_tracker, KeyArriv(loc.reference))
                       - (IF outcome[idx - 1] = "arrivage"
                          THEN loc.quantite ELSE 0))
  /\ (pc = "fin" /\ response.status_code = 500 /\ TousAppelsReussis)
       => response.body = ValueErrorDate

C11_Witness ==
  /\ pc = "fin"
  /\ response.status_code = 200
  /\ Len(details) = 2
  /\ ~Numerique(details[1].Quantite)
  /\ Evalue("main") /\ Evalue("arrivage")
  /\ \E k \in 1..Len(inventaire) :
       /\ inventaire[k].Title = loc.reference
       /\ inventaire[k].Site = site_stock
       /\ ~Numerique(inventaire[k].Quantite)
  /\ \E k \in 1..Len(all_details_history) :
       /\ all_details_history[k].Reference = loc.reference
       /\ ~Numerique(all_details_history[k].Quantite)
  /\ \E k \in 1..Len(arrivages) :
       /\ Contribue(arrivages[k], loc.reference)
       /\ ~Numerique(arrivages[k].Quantite)

\* C13: a run in which every call succeeds (the request carries an order
\* identifier) ends with a 200 response whose status is "OK" if and only if
\* the shortage list is empty and "Rupture" otherwise: a shortage never makes
\* the response an error.
C13_StatusReflectsShortages ==
  (pc = "fin" /\ response.status_code # 400 /\ TousAppelsReussis)
    => /\ response.status_code = 200
       /\ response.ruptures = ruptures
       /\ response.statut = (IF ruptures = <<>> THEN "OK" ELSE "Rupture")

\* the same, for the runs in which no shipment date raises
StatusReflectsShortagesSansErreurDate ==
  (/\ pc = "fin"
   /\ response.status_code # 400
   /\ TousAppelsReussis
   /\ response.body # ValueErrorDate)
    => /\ response.status_code = 200
       /\ response.ruptures = ruptures
       /\ response.statut = (IF ruptures = <<>> THEN "OK" ELSE "Rupture")

\* ------------------------------------------------------------------------
\* The calls of a run
\* ------------------------------------------------------------------------
\* the calls of the run that read or write the lists of the gateway
AppelsListes ==
  {k \in 1..Len(appels) :
     appels[k].appel \in {"graph_get_item_by_id", "graph_filtered_items",
                          "graph_list_items", "graph_update_field"}}

DernierAppel == appels[Len(appels)]

\* nothing was read after the order, no line was evaluated, nothing written
RienApresCommande ==
  /\ \A k \in AppelsListes : appels[k].appel = "graph_get_item_by_id"
  /\ details = <<>>
  /\ all_details_history = <<>>
  /\ outcome = <<>>
  /\ loc = LocalsVides
  /\ updates = <<>>

\* C14: when the order identifier does not resolve to an order (the gateway
\* answers 404 to the read of the order), the run ends with the response 404
\* "Commande introuvable"; no order line is fetched, no line is evaluated and
\* no record is updated.
C14_OrderNotFound ==
  (/\ pc = "fin"
   /\ appels # <<>>
   /\ DernierAppel = Appel("graph_get_item_by_id", "commandes", "404"))
    => /\ response.status_code = 404
       /\ response.body = "Commande introuvable"
       /\ RienApresCommande

C14_Witness ==
  /\ pc = "fin"
  /\ response.status_code = 404
  /\ appels # <<>>
  /\ DernierAppel.res = "404"
  /\ LignesDeCommande(liste_details) # <<>>
  /\ RienApresCommande

\* C15: not-found is reported distinctly from a generic failure: the run
\* answers 404 only when the gateway said the order is absent, and a failure
\* of another kind while the order is read (another error status, a
\* connection error) ends the run with 500.
C15_NotFoundDistinctFromFailure ==
  /\ (pc = "fin" /\ response.status_code = 404)
       => DernierAppel = Appel("graph_get_item_by_id", "commandes", "404")
  /\ (/\ pc = "fin"
      /\ appels # <<>>
      /\ DernierAppel = Appel("graph_get_item_by_id", "commandes", "erreur"))
       => response.status_code = 500

\* C16: a request whose body carries no order identifier is answered 400 and
\* no external call is made for it: no secret is read, no token is
\* requested, no list of the gateway is read or updated.
C16_MissingIdentifier ==
  ~req.fourni =>
    /\ pc = "fin"
    /\ response.status_code = 400
    /\ appels = <<>>
    /\ updates = <<>>
    /\ details = <<>>

C16_Witness ==
  /\ pc = "fin"
  /\ ~req.fourni
  /\ response.status_code = 400
  /\ LignesDeCommande(liste_details) # <<>>

\* C17: when the token cannot be obtained the run ends at once with a 500
\* response, before any access to the lists of the gateway: no order, line
\* or reference data is fetched and nothing is updated.
C17_TokenFailureAborts ==
  (\E k \in 1..Len(appels) : appels[k] = Appel("get_graph_token", "", "erreur"))
    => /\ pc = "fin"
       /\ response.status_code = 500
       /\ response.body = "Échec de l'authentification Graph"
       /\ DernierAppel = Appel("get_graph_token", "", "erreur")
       /\ AppelsListes = {}
       /\ details = <<>>
       /\ all_details_history = <<>>
       /\ updates = <<>>

C17_Witness ==
  /\ pc = "fin"
  /\ response.status_code = 500
  /\ appels # <<>>
  /\ DernierAppel = Appel("get_graph_token", "", "erreur")
  /\ LignesDeCommande(liste_details) # <<>>

\* C18: a failed update is never swallowed.  The step in which the update
\* of a line fails ends the run with a 500 response and leaves the tracker,
\* the store and the position in the lines as they were; from then on the
\* failed call is the last call of the run, so no later line is evaluated
\* or updated.  A failed update of the order ends the run with 500 as well.
EchecUpdateLigne == Appel("graph_update_field", "details", "erreur")
EchecUpdateCommande == Appel("graph_update_field", "commandes", "erreur")

C18_FailedUpdatePropagates ==
  /\ [][(EnBoucle /\ appels' = Append(appels, EchecUpdateLigne))
          => /\ pc' = "fin"
             /\ response'.status_code = 500
             /\ usage_tracker' = usage_tracker
             /\ idx' = idx
             /\ outcome' = outcome
             /\ updates' = updates
             /\ liste_details' = liste_details
             /\ commande' = commande]_vars
  /\ [](\A k \in 1..Len(appels) :
          appels[k] \in {EchecUpdateLigne, EchecUpdateCommande}
            => /\ k = Len(appels)
               /\ pc = "fin"
               /\ response.status_code = 500
               /\ response.body = HTTPError
               /\ commande.Statut = "Brouillon")

C18_Witness ==
  /\ pc = "fin"
  /\ response.status_code = 500
  /\ appels # <<>>
  /\ DernierAppel = EchecUpdateLigne
  /\ Len(details) = 2
  /\ idx = 2
  /\ outcome = <<"main", "">>
  /\ details[1].Reference = details[2].Reference
  /\ Usage(usage_tracker, KeyMain(details[1].Reference, site_stock))
       = Qte(details[1].Quantite)
  /\ Qte(details[2].Quantite) > 0
  /\ Len(updates) = 1

\* ------------------------------------------------------------------------
\* The secondary site
\* ------------------------------------------------------------------------
\* one run of main on orders whose secondary site is a site, the primary
\* site, empty or the sentinel "0"
InitSecondaire ==
  /\ InitLocal
  /\ \E lignes \in SeqsUpTo(LineKinds, MaxLines),
        bis \in {"", "0", "A", "B"},
        arr \in {<<ArrivageAvant>>, <<ArrivageIllisible>>} :
       InitStore(lignes, <<>>, bis, Livraison, arr)
  /\ produits = Catalogue
  /\ inventaire \in Inventaires

SpecSecondaire == InitSecondaire /\ [][Next]_vars

\* C20: a line is allocated from the secondary site only when the order
\* declares a secondary site that is neither empty nor "0", the primary-site
\* availability is less than the requested quantity and the secondary-site
\* availability is at least the whole requested quantity; when the secondary
\* site is empty or "0" the iteration computes nothing for a secondary site
\* and goes from the primary check to the incoming check.
C20_SecondaryOnlyWhenDeclared ==
  /\ [][(LigneDecidee /\ outcome'[idx] = "sec")
          => /\ SecondaireNomme
             /\ AvailPrincipal < LigneQte
             /\ AvailSecondaire >= LigneQte
             /\ LigneStore(liste_details').Site = site_stock_bis]_vars
  /\ [][(/\ LigneDecidee
         /\ InterneStocke(LigneRef)
         /\ ~SecondaireNomme
         /\ AvailPrincipal < LigneQte)
          => /\ loc'.evaluated = <<"main", "arrivage">>
             /\ outcome'[idx] \in {"arrivage", "rupture"}]_vars
  /\ [](~SecondaireNomme =>
          /\ ~Evalue("sec")
          /\ \A k \in 1..Len(outcome) : outcome[k] # "sec")

C20_Witness ==
  /\ pc = "fin"
  /\ response.status_code = 200
  /\ site_stock_bis = "0"
  /\ Len(details) = 2
  /\ outcome = <<"main", "arrivage">>
  /\ details[1].Reference = details[2].Reference
  /\ loc.evaluated = <<"main", "arrivage">>
  /\ loc.dispo < loc.quantite

\* ------------------------------------------------------------------------
\* The verification handler (SDF_Stock/src/CommandeVerification/__init__.py)
\* ------------------------------------------------------------------------
\* The loading of main is not in the file ("Récupération details, produits,
\* inventaire, arrivages, ukobas"); it is taken from steps 1 to 5 of the run
\* orchestrator: the request is checked, the order resolved, its lines, the
\* reference data and the reservation history (all_details) fetched, the
\* tracker and the shortage list emptied.
LecturesVerification ==
  <<Appel("get_secret", "", "ok"), Appel("get_graph_token", "", "ok"),
    Appel("graph_get_item_by_id", "commandes", "ok"),
    Appel("graph_filtered_items", "details", "ok"),
    Appel("graph_list_items", "produits", "ok"),
    Appel("graph_list_items", "inventaire", "ok"),
    Appel("graph_list_items", "arrivages", "ok"),
    Appel("graph_list_items", "ukobas", "ok"),
    Appel("graph_filtered_items", "details", "ok")>>

VerifCharger ==
  /\ pc = "attente"
  /\ runs < MaxRuns
  /\ runs' = runs + 1
  /\ \E res \in {"ok", "400", "404", "500"} :
       /\ req' = [req EXCEPT !.fourni = (res # "400")]
       /\ IF res = "ok"
          THEN /\ appels' = LecturesVerification
               /\ date_livraison' = ParseDateLivraison(commande.Date_livraison)
               /\ details' = LignesDeCommande(liste_details)
               /\ all_details_history' =
                    Historique(liste_details,
                               ReferencesUtiles(LignesDeCommande(liste_details)))
               /\ usage_tracker' = <<>>
               /\ ruptures' = <<>>
               /\ idx' = 1
               /\ outcome' =
                    [k \in 1..Len(LignesDeCommande(liste_details)) |-> ""]
               /\ pc' = "boucle"
               /\ UNCHANGED response
          ELSE /\ appels' =
                    IF res = "400" THEN <<>>
                    ELSE IF res = "404"
                    THEN SubSeq(LecturesVerification, 1, 2) \o
                         <<Appel("graph_get_item_by_id", "commandes", "404")>>
                    ELSE <<Appel("get_secret", "", "ok"),
                           Appel("get_graph_token", "", "erreur")>>
               /\ Respond(IF res = "400" THEN 400
                          ELSE IF res = "404" THEN 404 ELSE 500,
                          IF res = "400" THEN "Paramètre 'commande_id' requis"
                          ELSE IF res = "404" THEN "Commande introuvable"
                          ELSE "Échec de l'authentification Graph")
               /\ UNCHANGED <<date_livraison, details, all_details_history,
                              usage_tracker, ruptures, idx, outcome>>
  /\ UNCHANGED <<store, loc, updates, autre>>

\* the list of the stock held by the outside supplier, never written
ukobas == <<[Title |-> "R2", Quantite |-> "1"]>>

KeyUko(ref) == ref \o "_ukoba"

\* dispo_uko = q_uko - deja_pris_uko
DispoUko ==
  Somme(ukobas, {k \in 1..Len(ukobas) : ukobas[k].Title = reference})
  - TrackerGet(usage_tracker, KeyUko(reference))

UkobaSuffit == DispoUko >= quantite

\* if (q_arriv - deja_pris_arriv) >= quantite
UkobaArrivageSuffit ==
  QArriv(reference, date_livraison)
  - TrackerGet(usage_tracker, KeyArriv(reference)) >= quantite

\* the line reaches one of the two sums over arrivages
VerifPasseArrivage ==
  \/ PasseArrivage
  \/ ProduitTrouve(reference) /\ ~EstSDF /\ ~UkobaSuffit

\* if not produit: ruptures.append(...); continue
VerifProduitIntrouvable ==
  /\ EnBoucle
  /\ ~ProduitTrouve(reference)
  /\ ruptures' = Append(ruptures, [reference |-> reference,
                                   raison |-> "produit introuvable"])
  /\ outcome' = [outcome EXCEPT ![idx] = "introuvable"]
  /\ loc' = Locals(<<>>)
  /\ idx' = idx + 1
  /\ UNCHANGED <<store, pc, runs, date_livraison, details,
                 all_details_history, usage_tracker, updates, response,
                 appels, invocations>>

\* the status of the validation handler written by the verification
VerifPrincipalReserve ==
  /\ EnBoucle
  /\ EstSDF
  /\ PrincipalSuffit
  /\ loc' = Locals(<<"main">>)
  /\ UpdateLigne(
       [Statut |-> "Reservé", Site |-> site_stock,
        Batiment |-> PremierInventaire(reference, site_stock).Batiment,
        Emplacement |-> PremierInventaire(reference, site_stock).Emplacement],
       "main",
       TrackerSet(usage_tracker, KeyMain(reference, site_stock),
                  TrackerGet(usage_tracker, KeyMain(reference, site_stock))
                  + quantite))
  /\ UNCHANGED <<commande, produits, inventaire, arrivages, runs,
                 date_livraison, details, all_details_history, ruptures,
                 invocations>>

\* 1. Vérifie site principal
VerifPrincipal ==
  /\ EnBoucle
  /\ EstSDF
  /\ PrincipalSuffit
  /\ loc' = Locals(<<"main">>)
  /\ UpdateLigne(
       [Statut |-> "Disponible", Site |-> site_stock,
        Batiment |-> PremierInventaire(reference, site_stock).Batiment,
        Emplacement |-> PremierInventaire(reference, site_stock).Emplacement],
       "main",
       TrackerSet(usage_tracker, KeyMain(reference, site_stock),
                  TrackerGet(usage_tracker, KeyMain(reference, site_stock))
                  + quantite))
  /\ UNCHANGED <<commande, produits, inventaire, arrivages, runs,
                 date_livraison, details, all_details_history, ruptures,
                 invocations>>

\* 2. Vérifie site secondaire
VerifSecondaire ==
  /\ EnBoucle
  /\ EstSDF
  /\ ~PrincipalSuffit
  /\ SecondaireSuffit
  /\ loc' = Locals(<<"main", "sec">>)
  /\ UpdateLigne(
       [Statut |-> "Disponible", Site |-> site_stock_bis,
        Batiment |-> PremierInventaire(reference, site_stock_bis).Batiment,
        Emplacement |->
          PremierInventaire(reference, site_stock_bis).Emplacement],
       "sec",
       TrackerSet(usage_tracker, KeySec(reference, site_stock_bis),
                  TrackerGet(usage_tracker, KeySec(reference, site_stock_bis))
                  + quantite))
  /\ UNCHANGED <<commande, produits, inventaire, arrivages, runs,
                 date_livraison, details, all_details_history, ruptures,
                 invocations>>

\* the locals of an iteration on a line bought outside
LocalsUkoba(stages) ==
  [Locals(<<>>) EXCEPT
     !.evaluated = stages,
     !.q_arriv = IF Len(stages) > 1 THEN QArriv(reference, date_livraison)
                 ELSE 0]

\* 3. Vérifie arrivage / Vérif Arrivage Ukoba: strptime raises
VerifErreurDate ==
  /\ EnBoucle
  /\ VerifPasseArrivage
  /\ ArrivageRaises(reference, date_livraison)
  /\ loc' = IF EstSDF THEN Locals(StagesSec) ELSE LocalsUkoba(<<"ukoba">>)
  /\ Respond(500, ValueErrorDate)
  /\ UNCHANGED <<store, runs, date_livraison, details, all_details_history,
                 usage_tracker, ruptures, idx, outcome, updates, appels,
                 invocations>>

\* 3. Vérifie arrivage
VerifArrivage ==
  /\ EnBoucle
  /\ PasseArrivage
  /\ ~ArrivageRaises(reference, date_livraison)
  /\ ArrivageSuffit
  /\ loc' = Locals(StagesSec \o <<"arrivage">>)
  /\ UpdateLigne(
       [Statut |-> "Arrivage"],
       "arrivage",
       TrackerSet(usage_tracker, KeyArriv(reference),
                  TrackerGet(usage_tracker, KeyArriv(reference)) + quantite))
  /\ UNCHANGED <<commande, produits, inventaire, arrivages, runs,
                 date_livraison, details, all_details_history, ruptures,
                 invocations>>

\* Sinon, rupture: the line is updated, then the shortage recorded
VerifRupture ==
  /\ EnBoucle
  /\ PasseArrivage
  /\ ~ArrivageRaises(reference, date_livraison)
  /\ ~ArrivageSuffit
  /\ loc' = Locals(StagesSec \o <<"arrivage">>)
  /\ UpdateLigne([Statut |-> "Rupture SdF"], "rupture", usage_tracker)
  /\ ruptures' = IF idx' = idx + 1
                 THEN Append(ruptures,
                             [reference |-> reference,
                              raison |-> "stock et arrivage insuffisants"])
                 ELSE ruptures
  /\ UNCHANGED <<commande, produits, inventaire, arrivages, runs,
                 date_livraison, details, all_details_history, invocations>>

\* LOGIQUE UKOBA: if dispo_uko >= quantite
VerifUkoba ==
  /\ EnBoucle
  /\ ProduitTrouve(reference)
  /\ ~EstSDF
  /\ UkobaSuffit
  /\ loc' = LocalsUkoba(<<"ukoba">>)
  /\ UpdateLigne(
       [Statut |-> "Disponible"],
       "ukoba",
       TrackerSet(usage_tracker, KeyUko(reference),
                  TrackerGet(usage_tracker, KeyUko(reference)) + quantite))
  /\ UNCHANGED <<commande, produits, inventaire, arrivages, runs,
                 date_livraison, details, all_details_history, ruptures,
                 invocations>>

\* Vérif Arrivage Ukoba
VerifUkobaArrivage ==
  /\ EnBoucle
  /\ ProduitTrouve(reference)
  /\ ~EstSDF
  /\ ~UkobaSuffit
  /\ ~ArrivageRaises(reference, date_livraison)
  /\ UkobaArrivageSuffit
  /\ loc' = LocalsUkoba(<<"ukoba", "arrivage">>)
  /\ UpdateLigne(
       [Statut |-> "Arrivage"],
       "arrivage",
       TrackerSet(usage_tracker, KeyArriv(reference),
                  TrackerGet(usage_tracker, KeyArriv(reference)) + quantite))
  /\ UNCHANGED <<commande, produits, inventaire, arrivages, runs,
                 date_livraison, details, all_details_history, ruptures,
                 invocations>>

VerifUkobaRupture ==
  /\ EnBoucle
  /\ ProduitTrouve(reference)
  /\ ~EstSDF
  /\ ~UkobaSuffit
  /\ ~ArrivageRaises(reference, date_livraison)
  /\ ~UkobaArrivageSuffit
  /\ loc' = LocalsUkoba(<<"ukoba", "arrivage">>)
  /\ UpdateLigne([Statut |-> "Rupture Ukoba"], "rupture", usage_tracker)
  /\ ruptures' = IF idx' = idx + 1
                 THEN Append(ruptures,
                             [reference |-> reference,
                              raison |-> "stock et arrivage insuffisants"])
                 ELSE ruptures
  /\ UNCHANGED <<commande, produits, inventaire, arrivages, runs,
                 date_livraison, details, all_details_history, invocations>>

\* Fin de la fonction (retour JSON)
VerifTerminer ==
  /\ pc = "boucle"
  /\ idx > Len(details)
  /\ response' = [status_code |-> 200, body |-> "json",
                  statut |-> StatutFinal(ruptures),
                  ruptures |-> ruptures,
                  nb_produits_commande |-> Len(details)]
  /\ pc' = "fin"
  /\ UNCHANGED <<store, runs, date_livraison, details, all_details_history,
                 usage_tracker, ruptures, idx, loc, outcome, updates, appels,
                 invocations>>

NextVerification ==
  \/ VerifCharger
  \/ VerifProduitIntrouvable
  \/ VerifPrincipal
  \/ VerifSecondaire
  \/ VerifErreurDate
  \/ VerifArrivage
  \/ VerifRupture
  \/ VerifUkoba
  \/ VerifUkobaArrivage
  \/ VerifUkobaRupture
  \/ VerifTerminer

ArrivageR2 == Arrivage("R2", "2025-03-01T00:00:00Z", "1")

InitVerification ==
  /\ InitLocal
  /\ \E lignes \in SeqsUpTo({<<"R1", "1">>, <<"R1", "2">>, <<"R2", "1">>,
                             <<"R3", "1">>}, MaxLines),
        autres \in SeqsUpTo(AutresLignes, 1),
        arr \in {<<ArrivageAvant>>, <<ArrivageIllisible>>, <<ArrivageR2>>} :
       InitStore(lignes, autres, "B", Livraison, arr)
  /\ produits = Catalogue
  /\ inventaire = Inventaire(<<>>, "2")

\* one run of the verification handler
SpecVerification == InitVerification /\ [][NextVerification]_vars

MisesAJour == {k \in 1..Len(appels) : appels[k].appel = "graph_update_field"}

Invocation(p, dl, d, h, t, r, i, l, o, u, rep, a, rq, c) ==
  [pc |-> p, date_livraison |-> dl, details |-> d,
   all_details_history |-> h, usage_tracker |-> t, ruptures |-> r,
   idx |-> i, loc |-> l, outcome |-> o, updates |-> u, response |-> rep,
   appels |-> a, req |-> rq, commande |-> c]

\* the invocation that is executing
Courante ==
  Invocation(pc, date_livraison, details, all_details_history, usage_tracker,
             ruptures, idx, loc, outcome, updates, response, appels, req,
             commande)

\* the invocation of a request for the order id, before its first step
Nouvelle(id, c) ==
  Invocation("attente", <<>>, <<>>, <<>>, <<>>, <<>>, 1, LocalsVides, <<>>,
             <<>>, ReponseVide, <<>>, [commande_id |-> id, fourni |-> TRUE], c)

\* usage_tracker made a dictionary of the module: the invocations share it
CommuterTrackerPartage ==
  /\ autre # <<>>
  /\ autre[1].pc # "fin"
  /\ pc' = autre[1].pc
  /\ date_livraison' = autre[1].date_livraison
  /\ details' = autre[1].details
  /\ all_details_history' = autre[1].all_details_history
  /\ usage_tracker' = usage_tracker
  /\ ruptures' = autre[1].ruptures
  /\ idx' = autre[1].idx
  /\ loc' = autre[1].loc
  /\ outcome' = autre[1].outcome
  /\ updates' = autre[1].updates
  /\ response' = autre[1].response
  /\ appels' = autre[1].appels
  /\ req' = autre[1].req
  /\ commande' = autre[1].commande
  /\ autre' = <<Courante>>
  /\ UNCHANGED <<liste_details, produits, inventaire, arrivages, runs>>

\* the host suspends the invocation that is executing and resumes the other
Commuter ==
  /\ autre # <<>>
  /\ autre[1].pc # "fin"
  /\ pc' = autre[1].pc
  /\ date_livraison' = autre[1].date_livraison
  /\ details' = autre[1].details
  /\ all_details_history' = autre[1].all_details_history
  /\ usage_tracker' = autre[1].usage_tracker
  /\ ruptures' = autre[1].ruptures
  /\ idx' = autre[1].idx
  /\ loc' = autre[1].loc
  /\ outcome' = autre[1].outcome
  /\ updates' = autre[1].updates
  /\ response' = autre[1].response
  /\ appels' = autre[1].appels
  /\ req' = autre[1].req
  /\ commande' = autre[1].commande
  /\ autre' = <<Courante>>
  /\ UNCHANGED <<liste_details, produits, inventaire, arrivages, runs>>

NextConcurrent == Run \/ Commuter

\* two requests, for the orders 1 and 2, on the same store
InitConcurrent ==
  /\ pc = "attente"
  /\ runs = 0
  /\ date_livraison = <<>>
  /\ details = <<>>
  /\ all_details_history = <<>>
  /\ usage_tracker = <<>>
  /\ ruptures = <<>>
  /\ idx = 1
  /\ loc = LocalsVides
  /\ outcome = <<>>
  /\ updates = <<>>
  /\ response = ReponseVide
  /\ appels = <<>>
  /\ req = [commande_id |-> 1, fourni |-> TRUE]
  /\ \E lignes \in SeqsUpTo({<<"R1", "1">>, <<"R1", "2">>, <<"R2", "1">>,
                             <<"R3", "1">>}, MaxLines),
        secondes \in {<<<<"R1", "1", "", "", 0>>>>,
                      <<<<"R1", "2", "", "", 0>>>>},
        arr \in {<<ArrivageAvant>>, <<ArrivageIllisible>>} :
       /\ InitStore(lignes, secondes, "B", Livraison, arr)
       /\ autre = <<Nouvelle(2, [Site_Stock |-> "A",
                                 Site_Stock_second |-> "B",
                                 Date_livraison |-> Livraison,
                                 Statut |-> "Brouillon"])>>
  /\ produits = Catalogue
  /\ inventaire = Inventaire(<<>>, "1")

SpecConcurrent == InitConcurrent /\ [][NextConcurrent]_vars

\* the invocations there are
LesInvocations == {Courante} \cup {autre[k] : k \in 1..Len(autre)}

\* the tracker key of the bucket the line i of the invocation v was
\* allocated from, "" when it was allocated from none
Bucket(v, i) ==
  IF v.outcome[i] = "main"
  THEN KeyMain(v.details[i].Reference, v.commande.Site_Stock)
  ELSE IF v.outcome[i] = "sec"
  THEN KeySec(v.details[i].Reference, v.commande.Site_Stock_second)
  ELSE IF v.outcome[i] = "arrivage"
  THEN KeyArriv(v.details[i].Reference)
  ELSE ""

\* the tracker of v holds what the lines v decided took, and nothing else
TrackerPropre(v) ==
  /\ \A key \in DOMAIN v.usage_tracker :
       \E i \in 1..Len(v.outcome) : Bucket(v, i) = key
  /\ \A i \in 1..Len(v.outcome) :
       Bucket(v, i) # "" =>
         /\ Bucket(v, i) \in DOMAIN v.usage_tracker
         /\ v.usage_tracker[Bucket(v, i)] =
              QteTotale(v.details,
                        {j \in 1..Len(v.outcome) : Bucket(v, j) = Bucket(v, i)})

\* C19: every run has a usage tracker of its own, empty when its loop
\* starts: at every point, whether the runs of two orders follow each other
\* or are interleaved, the tracker of a run holds exactly the quantities its
\* own decided lines took from each bucket, never a quantity another run
\* added.
C19_TrackerPerRun ==
  \A v \in LesInvocations :
    /\ TrackerPropre(v)
    /\ (v.pc = "boucle" /\ v.idx = 1) => v.usage_tracker = <<>>

C19_Witness ==
  /\ autre # <<>>
  /\ pc = "boucle"
  /\ autre[1].pc = "boucle"
  /\ idx = 2
  /\ autre[1].idx = 2
  /\ outcome[1] = "main"
  /\ autre[1].outcome[1] = "main"
  /\ details[1].Reference = autre[1].details[1].Reference
  /\ usage_tracker[KeyMain("R1", "A")] = 1
  /\ autre[1].usage_tracker[KeyMain("R1", "A")] = 1
  /\ OnHand("R1", "A") = 1

\* ------------------------------------------------------------------------
\* The committed reservations
\* ------------------------------------------------------------------------
\* records of another order in every status, reconciled or not, at the
\* primary site, the secondary site and for another reference
AutresStatuts ==
  {<<"R1", "1", "Reservé", "A", 0>>,
   <<"R1", "1", "Préparé", "A", 0>>,
   <<"R1", "1", "Sortie produits", "A", 0>>,
   <<"R1", "1", "Sortie produits", "A", 1>>,
   <<"R1", "1", "Sortie produits", "B", 1>>,
   <<"R1", "1", "Préparé", "B", 1>>,
   <<"R1", "1", "Commandé", "A", 0>>,
   <<"R1", "1", "Arrivage", "A", 0>>,
   <<"R2", "1", "Reservé", "A", 0>>}

MaxAutres == 2

InitCommitted ==
  /\ InitLocal
  /\ \E lignes \in SeqsUpTo({<<"R1", "2">>, <<"R2", "1">>, <<"R3", "1">>,
                             <<"R4", "2">>}, MaxLines),
        autres \in SeqsUpTo(AutresStatuts, MaxAutres) :
       InitStore(lignes, autres, "B", Livraison,
                 <<ArrivageAvant, Arrivage("R4", "10/03/2025", "2")>>)
  /\ produits = Catalogue
  /\ inventaire = Inventaire(<<[Title |-> "R1", Site |-> "A", Quantite |-> "2",
                                Batiment |-> "BatA2", Emplacement |-> "E2"]>>,
                             "2")

\* one run of main on a store that holds reservation records of every kind
SpecCommitted == InitCommitted /\ [][Next]_vars

\* the records of h with the given reference, site and status
Records(h, r, s, statut) ==
  {k \in 1..Len(h) :
     h[k].Reference = r /\ h[k].Site = s /\ h[k].Statut = statut}

\* what the rule of the committed set counts among the records h
CommittedRule(h, r, s) ==
  QteTotale(h, Records(h, r, s, "Reservé"))
  + QteTotale(h, Records(h, r, s, "Préparé"))
  + QteTotale(h, {k \in Records(h, r, s, "Sortie produits") :
                    h[k].Comptabilise_inventaire # 1})

\* the tracker usage of a bucket before the last iteration added to it
UsageAvant(key, branch) ==
  Usage(usage_tracker, key)
  - (IF outcome[idx - 1] = branch THEN loc.quantite ELSE 0)

\* C21: the committed quantity an iteration subtracts from the on-hand stock
\* of a site is the sum of the quantities of exactly the records of the
\* reference at the site whose status is "Reservé", "Préparé" or "Sortie
\* produits", a "Sortie produits" record counting only when its flag
\* Comptabilise_inventaire is not set; it is so for the primary and for the
\* secondary site.
C21_CommittedSetRule ==
  (pc = "boucle" /\ idx > 1 /\ loc.reference = details[idx - 1].Reference)
    => /\ Evalue("main") =>
            /\ loc.q_resa =
                 CommittedRule(all_details_history, loc.reference, site_stock)
            /\ loc.dispo =
                 OnHand(loc.reference, site_stock)
                 - CommittedRule(all_details_history, loc.reference, site_stock)
                 - UsageAvant(KeyMain(loc.reference, site_stock), "main")
       /\ Evalue("sec") =>
            loc.dispo_bis =
              OnHand(loc.reference, site_stock_bis)
              - CommittedRule(all_details_history, loc.reference,
                              site_stock_bis)
              - UsageAvant(KeySec(loc.reference, site_stock_bis), "sec")

C21_Witness ==
  /\ pc = "boucle"
  /\ idx > 1
  /\ Evalue("main") /\ Evalue("sec")
  /\ loc.reference = "R1"
  /\ Records(all_details_history, "R1", "A", "Sortie produits") # {}
  /\ \E k \in Records(all_details_history, "R1", "A", "Sortie produits") :
       all_details_history[k].Comptabilise_inventaire = 1
  /\ Records(all_details_history, "R1", "A", "Préparé") # {}
  /\ loc.q_resa = 1
  /\ loc.dispo = 0
  /\ loc.dispo_bis = 2

\* ------------------------------------------------------------------------
\* The reservation history
\* ------------------------------------------------------------------------
\* a line of the order whose field Title is not its field Reference
DetailTitre(id, cmd, titre, ref, q) ==
  [Detail(id, cmd, ref, q, "", "", 0) EXCEPT !.Title = titre]

\* <<Title, Reference, Quantite>> of a line of the order: the two fields
\* agree, or Title is empty
TitleKinds ==
  {<<"R1", "R1", "1">>, <<"R1", "R1", "2">>, <<"", "R1", "1">>,
   <<"R2", "R2", "1">>, <<"R3", "R3", "1">>}

\* the numbers of lines of the orders of many references: one full clause,
\* one more reference than a clause holds, one more than two clauses hold
GrandesCommandes == {ChunkSize, ChunkSize + 1, 2 * ChunkSize + 1}

InitHistorique ==
  /\ InitLocal
  /\ commande = [Site_Stock |-> "A", Site_Stock_second |-> "B",
                 Date_livraison |-> Livraison, Statut |-> "Brouillon"]
  /\ produits = Catalogue
  /\ \/ \E lignes \in SeqsUpTo(TitleKinds, MaxLines),
           autres \in SeqsUpTo(AutresLignes, 1) :
          /\ liste_details =
               [k \in 1..Len(lignes) |->
                  DetailTitre(k, commande_id, lignes[k][1], lignes[k][2],
                              lignes[k][3])]
               \o
               [k \in 1..Len(autres) |->
                  Detail(Len(lignes) + k, 2, autres[k][1], autres[k][2],
                         autres[k][3], autres[k][4], autres[k][5])]
          /\ arrivages \in {<<ArrivageAvant>>, <<ArrivageIllisible>>}
          /\ inventaire \in Inventaires
     \/ \E n \in GrandesCommandes :
          /\ liste_details =
               [k \in 1..n |->
                  Detail(k, commande_id, "X" \o ToString(k), "1", "", "", 0)]
               \o <<Detail(n + 1, 2, "X1", "1", "Reservé", "A", 0),
                    Detail(n + 2, 2, "X" \o ToString(n), "1", "Reservé", "A", 0)>>
          /\ arrivages = <<ArrivageAvant>>
          /\ inventaire = Inventaire(<<>>, "1")

\* one run of main on orders whose lines name their reference in Title or
\* not, and on orders of more references than a clause holds
SpecHistorique == InitHistorique /\ [][Next]_vars

\* the history queries of the run: the filtered reads after the reference
\* data
RequetesHistorique ==
  {k \in 1..Len(appels) :
     /\ appels[k].appel = "graph_filtered_items"
     /\ \E j \in 1..(k - 1) : appels[j].appel = "graph_list_items"}

\* the distinct product references of the lines of the order
ReferencesLignes == {details[i].Reference : i \in 1..Len(details)}

\* the places of the history queries where the value v is named
Nomme(v) ==
  {<<k, j>> \in RequetesHistorique \X (1..ChunkSize) :
     j <= Len(appels[k].filtre) /\ appels[k].filtre[j] = v}

\* C22: once the history is fetched, each history query names at most 20
\* values, the queries together name every distinct product reference of the
\* lines of the order exactly once, every record of the store (of any order)
\* that carries the reference of a line of the order is in the history, and
\* with no reference no history query was issued and the history is empty.
C22_HistoryCoversReferences ==
  pc = "boucle" =>
    /\ \A k \in RequetesHistorique :
         Len(appels[k].filtre) \in 1..ChunkSize
    /\ \A r \in ReferencesLignes : Cardinality(Nomme(r)) = 1
    /\ \A i \in 1..Len(details), k \in 1..Len(liste_details) :
         liste_details[k].Reference = details[i].Reference
           => \E h \in 1..Len(all_details_history) :
                all_details_history[h].id = liste_details[k].id
    /\ ReferencesLignes = {} =>
         (RequetesHistorique = {} /\ all_details_history = <<>>)

\* the same, for the orders whose lines all carry their reference in Title
HistoryCoversTitles ==
  (pc = "boucle"
   /\ \A i \in 1..Len(details) : details[i].Title = details[i].Reference) =>
    /\ \A k \in RequetesHistorique :
         Len(appels[k].filtre) \in 1..ChunkSize
    /\ \A r \in ReferencesLignes : Cardinality(Nomme(r)) = 1
    /\ Cardinality(RequetesHistorique) =
         (Cardinality(ReferencesLignes) + ChunkSize - 1) \div ChunkSize
    /\ \A i \in 1..Len(details), k \in 1..Len(liste_details) :
         liste_details[k].Reference = details[i].Reference
           => \E h \in 1..Len(all_details_history) :
                all_details_history[h].id = liste_details[k].id
    /\ ReferencesLignes = {} =>
         (RequetesHistorique = {} /\ all_details_history = <<>>)

\* ------------------------------------------------------------------------
\* The update of the order
\* ------------------------------------------------------------------------
\* the updates of the order the run issued, and those that succeeded
AppelsCommande ==
  {k \in MisesAJour : appels[k].liste = "commandes"}

UpdatesCommande ==
  {k \in 1..Len(updates) : updates[k].liste = "commandes"}

TermineAvecSucces == pc = "fin" /\ response.status_code = 200

\* C23: the status of the order is patched at most once in a run, by the
\* last call of the run, when every line is decided: never before or between
\* the updates of the lines; until then the order keeps its status.  A run
\* that completes has patched it exactly once, after the updates of its
\* lines, to "Validé" when the shortage list is empty and to "Validé
\* (Rupture SdF)" otherwise.
C23_OrderPatchedOnceAtEnd ==
  /\ \A k \in AppelsCommande :
       /\ k = Len(appels)
       /\ pc = "fin"
       /\ \A i \in 1..Len(outcome) : outcome[i] # ""
  /\ UpdatesCommande = {} => commande.Statut = "Brouillon"
  /\ TermineAvecSucces =>
       /\ Cardinality(AppelsCommande) = 1
       /\ UpdatesCommande = {Len(updates)}
       /\ (commande.Statut = "Validé") <=> (ruptures = <<>>)
       /\ (commande.Statut = "Validé (Rupture SdF)") <=> (ruptures # <<>>)
       /\ updates[Len(updates)].Statut = commande.Statut

C23_Witness ==
  /\ TermineAvecSucces
  /\ Len(details) = 2
  /\ outcome = <<"main", "rupture">>
  /\ Len(updates) = 2
  /\ updates[1].liste = "details"
  /\ commande.Statut = "Validé (Rupture SdF)"

\* ------------------------------------------------------------------------
\* The entries of the usage tracker
\* ------------------------------------------------------------------------
\* the keys the run can use, bucket by bucket
ClesMain == {KeyMain(r, site_stock) : r \in Refs}
ClesSec == {KeySec(r, site_stock_bis) : r \in Refs}
ClesArriv == {KeyArriv(r) : r \in Refs}

\* on-hand quantity of the site minus its committed reservations
BaseSite(r, s) == OnHand(r, s) - CommittedQty(all_details_history, r, s)

\* qualifying shipments minus the quantities already in status Arrivage
BaseArrivage(r) == Incoming(r) - EnArrivage(r)

\* C24: at every point of a run whose requested quantities are all
\* non-negative, every entry of the tracker is non-negative and at most the
\* base availability of its bucket: on-hand minus committed reservations of
\* the primary site for a primary entry, of the secondary site for a
\* secondary entry, qualifying shipments minus the quantities already in
\* status "Arrivage" for an incoming entry; the tracker has no other entry.
C24_TrackerEntriesBounded ==
  QuantitesNonNegatives =>
    /\ DOMAIN usage_tracker \subseteq ClesMain \cup ClesSec \cup ClesArriv
    /\ \A key \in DOMAIN usage_tracker : usage_tracker[key] >= 0
    /\ \A r \in Refs :
         /\ KeyMain(r, site_stock) \in DOMAIN usage_tracker
              => usage_tracker[KeyMain(r, site_stock)]
                   <= BaseSite(r, site_stock)
         /\ KeySec(r, site_stock_bis) \in DOMAIN usage_tracker
              => usage_tracker[KeySec(r, site_stock_bis)]
                   <= BaseSite(r, site_stock_bis)
         /\ KeyArriv(r) \in DOMAIN usage_tracker
              => usage_tracker[KeyArriv(r)] <= BaseArrivage(r)

C24_Witness ==
  /\ pc = "boucle"
  /\ Len(details) = 2
  /\ idx = 3
  /\ outcome = <<"main", "arrivage">>
  /\ QuantitesNonNegatives
  /\ CommittedQty(all_details_history, "R1", site_stock) = 1
  /\ usage_tracker[KeyMain("R1", site_stock)] = BaseSite("R1", site_stock)
  /\ usage_tracker[KeyMain("R1", site_stock)] = 2
  /\ usage_tracker[KeyArriv("R1")] = BaseArrivage("R1")

\* ------------------------------------------------------------------------
\* The effect of one line on the tracker
\* ------------------------------------------------------------------------
\* the key of the bucket a branch of the loop allocates the current line from
CleBranche(branch) ==
  IF branch = "main" THEN KeyMain(LigneRef, site_stock)
  ELSE IF branch = "sec" THEN KeySec(LigneRef, site_stock_bis)
  ELSE KeyArriv(LigneRef)

\* the keys whose entry the step changes, an absent entry being 0
ClesChangees ==
  {key \in DOMAIN usage_tracker \cup DOMAIN usage_tracker' :
     Usage(usage_tracker', key) # Usage(usage_tracker, key)}

\* C25: the iteration of one line changes at most one entry of the tracker.
\* A line allocated from the primary site, the secondary site or incoming
\* adds exactly its requested quantity to the entry of the bucket it is
\* allocated from and leaves every other entry as it was; a line that ends
\* as product not found, as a shortage or as externally sourced leaves the
\* whole tracker unchanged.
C25_OneEntryPerLine ==
  [][EnBoucle =>
       /\ Cardinality(ClesChangees) <= 1
       /\ (LigneDecidee /\ outcome'[idx] \in {"main", "sec", "arrivage"})
            => /\ CleBranche(outcome'[idx]) \in DOMAIN usage_tracker'
               /\ usage_tracker'[CleBranche(outcome'[idx])] =
                    Usage(usage_tracker, CleBranche(outcome'[idx])) + LigneQte
               /\ DOMAIN usage_tracker' =
                    DOMAIN usage_tracker \cup {CleBranche(outcome'[idx])}
               /\ \A key \in DOMAIN usage_tracker :
                    key # CleBranche(outcome'[idx])
                      => usage_tracker'[key] = usage_tracker[key]
       /\ (LigneDecidee
           /\ outcome'[idx] \in {"introuvable", "rupture", "commande"})
            => usage_tracker' = usage_tracker]_vars

C25_Witness ==
  /\ pc = "boucle"
  /\ Len(details) = 2
  /\ idx = 3
  /\ outcome = <<"main", "sec">>
  /\ details[1].Reference = details[2].Reference
  /\ DOMAIN usage_tracker =
       {KeyMain("R1", site_stock), KeySec("R1", site_stock_bis)}
  /\ usage_tracker[KeyMain("R1", site_stock)] = 1
  /\ usage_tracker[KeySec("R1", site_stock_bis)] = 2

\* ------------------------------------------------------------------------
\* One outcome per line
\* ------------------------------------------------------------------------
\* the updates of the line i that succeeded in the run
UpdatesLigne(i) ==
  {k \in 1..Len(updates) :
     updates[k].liste = "details" /\ updates[k].id = details[i].id}

UpdatesLignes == {k \in 1..Len(updates) : updates[k].liste = "details"}

\* the lines of the order the run did not update, in the order of the loop
LignesSansUpdate ==
  SelectSeq([i \in 1..Len(details) |-> i], LAMBDA i : UpdatesLigne(i) = {})

\* C26: in a run that completes every line of the order has exactly one
\* outcome: it is updated exactly once, to "Reservé", "Arrivage" or
\* "Commandé", or it is listed exactly once in the shortage list, never both
\* and never neither; the number of line updates plus the number of shortage
\* records is nb_produits_commande, the number of lines of the order.
C26_OneOutcomePerLine ==
  TermineAvecSucces =>
    /\ \A i \in 1..Len(details) : Cardinality(UpdatesLigne(i)) <= 1
    /\ \A k \in UpdatesLignes :
         /\ updates[k].Statut \in {"Reservé", "Arrivage", "Commandé"}
         /\ \E i \in 1..Len(details) : k \in UpdatesLigne(i)
    /\ Len(ruptures) = Len(LignesSansUpdate)
    /\ \A j \in 1..Len(ruptures) :
         ruptures[j].reference = details[LignesSansUpdate[j]].Reference
    /\ response.ruptures = ruptures
    /\ Cardinality(UpdatesLignes) + Len(response.ruptures)
         = response.nb_produits_commande
    /\ response.nb_produits_commande = Len(LignesDeCommande(liste_details))

C26_Witness ==
  /\ TermineAvecSucces
  /\ Len(details) = 2
  /\ outcome = <<"rupture", "commande">>
  /\ Cardinality(UpdatesLignes) = 1
  /\ Len(response.ruptures) = 1
  /\ response.nb_produits_commande = 2

\* ------------------------------------------------------------------------
\* Two runs and the stock of a site
\* ------------------------------------------------------------------------
\* the two orders of the concurrent invocations
DeuxCommandes == {v.req.commande_id : v \in LesInvocations}

\* what the lines of the two orders hold reserved of r at the site s
ReservedByBoth(r, s) ==
  QteTotale(liste_details,
            {k \in 1..Len(liste_details) :
               /\ liste_details[k].CMD_ID \in DeuxCommandes
               /\ liste_details[k].Statut = "Reservé"
               /\ liste_details[k].Reference = r
               /\ liste_details[k].Site = s})

\* the reservations committed before the two runs started: those of the
\* records of the other orders, which no run writes
CommittedBefore(r, s) ==
  CommittedQty(SelectSeq(liste_details,
                         LAMBDA l : l.CMD_ID \notin DeuxCommandes), r, s)

\* both orders have the site s as primary site and a line of r
DemandentLeMeme(r, s) ==
  /\ InterneStocke(r)
  /\ \A v \in LesInvocations : v.commande.Site_Stock = s
  /\ \A id \in DeuxCommandes :
       \E k \in 1..Len(liste_details) :
         liste_details[k].CMD_ID = id /\ liste_details[k].Reference = r

\* C27: when two runs for two different orders execute concurrently on the
\* same store and both orders request the same internally-stocked reference
\* at the same site, the quantities the two runs together reserve at the
\* site never exceed its on-hand quantity minus the reservations committed
\* before both runs started.
C27_ConcurrentRunsNeverOversell ==
  \A r \in Refs, s \in Sites :
    (Cardinality(DeuxCommandes) = 2 /\ DemandentLeMeme(r, s))
      => ReservedByBoth(r, s) <= OnHand(r, s) - CommittedBefore(r, s)

\* ------------------------------------------------------------------------
\* A run that fails after it updated lines
\* ------------------------------------------------------------------------
\* the run ended with a 500 after at least one line was updated
EchecApresUpdates ==
  /\ pc = "fin"
  /\ response.status_code = 500
  /\ UpdatesLignes # {}

\* the record of the store with the given id
Enregistrement(id) ==
  liste_details[CHOOSE k \in 1..Len(liste_details) : liste_details[k].id = id]

\* C28: a run that fails after some lines were updated (a call fails or an
\* exception is raised on a later line, or the update of the order fails)
\* answers 500 with an error text and no summary; the updates written to the
\* earlier lines are still in the store, nothing is rolled back, and the
\* status of the order is not patched.
C28_PartialFailureKeepsUpdates ==
  EchecApresUpdates =>
    /\ response.body \in {HTTPError, ValueErrorDate}
    /\ response.statut = ""
    /\ response.ruptures = <<>>
    /\ response.nb_produits_commande = 0
    /\ \A k \in UpdatesLignes :
         /\ Enregistrement(updates[k].id).Statut = updates[k].Statut
         /\ updates[k].Statut \in {"Reservé", "Arrivage", "Commandé"}
    /\ UpdatesCommande = {}
    /\ commande.Statut = "Brouillon"

C28_Witness ==
  /\ EchecApresUpdates
  /\ response.body = ValueErrorDate
  /\ Len(details) = 2
  /\ idx = 2
  /\ outcome = <<"main", "">>
  /\ Enregistrement(details[1].id).Statut = "Reservé"
  /\ Enregistrement(details[1].id).Site = site_stock
  /\ Enregistrement(details[2].id).Statut = ""

\* ------------------------------------------------------------------------
\* The same request sent again
\* ------------------------------------------------------------------------
\* a new invocation of main for the same order once the run has answered;
\* the invocation that answered is kept in autre, finished
Reexecuter ==
  /\ pc = "fin"
  /\ runs < MaxRuns
  /\ pc' = "attente"
  /\ date_livraison' = <<>>
  /\ details' = <<>>
  /\ all_details_history' = <<>>
  /\ usage_tracker' = <<>>
  /\ ruptures' = <<>>
  /\ idx' = 1
  /\ loc' = LocalsVides
  /\ outcome' = <<>>
  /\ updates' = <<>>
  /\ response' = ReponseVide
  /\ appels' = <<>>
  /\ req' = [req EXCEPT !.fourni = TRUE]
  /\ autre' = <<Courante>>
  /\ UNCHANGED <<store, runs>>

NextReexecution == Run \/ Reexecuter

\* main run again for the same order, nothing else writing to the store
SpecReexecution == InitRerun /\ [][NextReexecution]_vars

\* the run that has just completed follows a completed run of the same order
DeuxRunsComplets ==
  /\ TermineAvecSucces
  /\ autre # <<>>
  /\ autre[1].pc = "fin"
  /\ autre[1].response.status_code = 200
  /\ autre[1].req.commande_id = commande_id

\* C29: a run executed again for the same order, with no other change to the
\* store in between, reports the same shortage list and the same overall
\* status as the previous run, and leaves the status of the order and the
\* status and site of every line as the previous run left them (they are
\* what the second run fetched).
C29_RerunStable ==
  DeuxRunsComplets =>
    /\ response.ruptures = autre[1].response.ruptures
    /\ response.statut = autre[1].response.statut
    /\ commande.Statut = autre[1].commande.Statut
    /\ \A i \in 1..Len(details) :
         /\ Enregistrement(details[i].id).Statut = details[i].Statut
         /\ Enregistrement(details[i].id).Site = details[i].Site

====
